---- MODULE Spec2Model ----
(***************************************************************************)
(* A model of the r-assist RStudio bridge:                                 *)
(*   scripts/interact_with_rstudio.py                                      *)
(*   scripts/communicate_with_rstudio_console_with_rpc_low_level.py        *)
(*                                                                         *)
(* Text is modelled as a sequence of tokens.  A token is one punctuation   *)
(* or whitespace character, one digit, or one maximal run of letters (a    *)
(* word).  The regular expressions of the source are evaluated over these  *)
(* sequences by the operators below.                                       *)
(***************************************************************************)
EXTENDS Integers, Sequences, FiniteSets, TLC

(***************************************************************************)
(* Text helpers                                                            *)
(***************************************************************************)

\* Python's str.strip()/split() whitespace and the regex class \s.
WS == {" ", "\n", "\t"}

Digits == {"0", "1", "2", "5", "8"}

\* The words (letter runs) that occur in the inputs of this model.
AlphaWords ==
  {"x", "y", "a", "b", "f", "save", "SAVE", "q", "source", "local", "FALSE",
   "TRUE", "cat", "globalenv", "GlobalEnv", "append", "result", "export",
   "create", "modify", "send", "clear", "show", "help", "quit", "exit",
   "id", "out", "timeout", "rpc", "benchmark", "unit", "capture", "output",
   "session", "dir", "on", "off", "ms", "seconds", "maybe", "bogus", "tmp",
   "Append", "stop", "rm", "s1", "s2", "res", "exp"}

\* re.IGNORECASE on the words of the model.
Lower(t) ==
  CASE t = "SAVE" -> "save"
    [] t = "FALSE" -> "false"
    [] t = "TRUE" -> "true"
    [] t = "GlobalEnv" -> "globalenv"
    [] t = "Append" -> "append"
    [] OTHER -> t

\* The regex class [A-Za-z0-9_.]
IsIdentTok(t) == t \in AlphaWords \/ t \in Digits \/ t \in {"_", "."}

ContainsSeq(s, p) ==
  \E i \in 1..(Len(s) - Len(p) + 1) : SubSeq(s, i, i + Len(p) - 1) = p

AllWs(s, i, j) == \A k \in i..j : s[k] \in WS

trim(s) ==
  IF \A k \in 1..Len(s) : s[k] \in WS
    THEN << >>
    ELSE LET lo == CHOOSE i \in 1..Len(s) : s[i] \notin WS /\ AllWs(s, 1, i - 1)
             hi == CHOOSE j \in 1..Len(s) : s[j] \notin WS /\ AllWs(s, j + 1, Len(s))
         IN SubSeq(s, lo, hi)

\* "".join(text.split()): every whitespace character removed.
RECURSIVE RemoveWs(_)
RemoveWs(s) ==
  IF s = << >> THEN << >>
  ELSE IF Head(s) \in WS THEN RemoveWs(Tail(s))
  ELSE <<Head(s)>> \o RemoveWs(Tail(s))

\* Index of the first occurrence of p in s, 0 when there is none.
FindSeq(s, p) ==
  IF ContainsSeq(s, p)
    THEN CHOOSE i \in 1..(Len(s) - Len(p) + 1) :
           /\ SubSeq(s, i, i + Len(p) - 1) = p
           /\ \A k \in 1..(i - 1) : SubSeq(s, k, k + Len(p) - 1) # p
    ELSE 0

\* (^|[^A-Za-z0-9_.])(w1|w2|...)\s*\(   with re.IGNORECASE
CallsOneOf(s, words) ==
  \E i \in 1..Len(s) :
    /\ Lower(s[i]) \in words
    /\ (i = 1 \/ ~IsIdentTok(s[i - 1]))
    /\ \E j \in (i + 1)..Len(s) : s[j] = "(" /\ AllWs(s, i + 1, j - 1)

(***************************************************************************)
(* Policy validator.  Each validate_* operator is TRUE when the Python     *)
(* function returns normally and FALSE when it raises ValidationError.     *)
(***************************************************************************)

CommonBlockedCalls ==
  {"save", "saverds", "load", "setwd", "options", "library", "require",
   "attach", "detach", "sink", "system", "system2"}

AppendFileBlockedCalls ==
  {"write", "writelines", "fwrite", "cat", "saverds", "save", "load",
   "unlink", "png", "jpeg", "svg", "bmp", "tiff", "pdf", "postscript",
   "quartz", "x11"}

\* source\s*\([^)]*local\s*=   followed by `tail` after optional whitespace
SourceLocal(s, needFalse) ==
  \E i \in 1..Len(s) :
    /\ Lower(s[i]) = "source"
    /\ \E j \in (i + 1)..Len(s) :
         /\ s[j] = "(" /\ AllWs(s, i + 1, j - 1)
         /\ \E k \in (j + 1)..Len(s) :
              /\ Lower(s[k]) = "local"
              /\ \A m \in (j + 1)..(k - 1) : s[m] # ")"
              /\ \E e \in (k + 1)..Len(s) :
                   /\ s[e] = "=" /\ AllWs(s, k + 1, e - 1)
                   /\ (needFalse =>
                         \E g \in (e + 1)..Len(s) :
                           Lower(s[g]) = "false" /\ AllWs(s, e + 1, g - 1))

validate_common_blocklist(code) ==
  /\ ~ContainsSeq(code, <<"<", "<", "-">>)
  /\ ~ContainsSeq(code, <<"-", ">", ">">>)
  /\ ~CallsOneOf(code, CommonBlockedCalls)
  /\ ~CallsOneOf(code, {"q", "quit"})
  /\ (CallsOneOf(code, {"source"}) =>
        SourceLocal(code, FALSE) /\ ~SourceLocal(code, TRUE))

validate_append_file_restrictions(code) ==
  ~CallsOneOf(code, AppendFileBlockedCalls)

\* Variant: only the left arrow counts as an assignment.
validate_assignment_free_LeftOnly(code) ==
  ~ContainsSeq(code, <<"<", "-">>)

validate_assignment_free(code) ==
  /\ ~ContainsSeq(code, <<"<", "-">>)
  /\ ~ContainsSeq(code, <<"-", ">">>)

\* re.fullmatch(r"[A-Za-z.][A-Za-z0-9._]*", value)
validate_identifier(value) ==
  /\ Len(value) >= 1
  /\ (value[1] \in AlphaWords \/ value[1] = ".")
  /\ \A k \in 2..Len(value) : IsIdentTok(value[k])

\* (<-|->|=)\s*$   with re.MULTILINE
LooksIncomplete(e) ==
  \E i \in 1..Len(e) :
    /\ \/ e[i] = "="
       \/ (i >= 2 /\ SubSeq(e, i - 1, i) \in {<<"<", "-">>, <<"-", ">">>})
    /\ \E j \in i..Len(e) :
         AllWs(e, i + 1, j) /\ (j = Len(e) \/ e[j + 1] = "\n")

\* spec.split(":=", 1) and the two trimmed sides
CreateName(spec) ==
  LET i == FindSeq(spec, <<":", "=">>) IN trim(SubSeq(spec, 1, i - 1))

CreateExpr(spec) ==
  LET i == FindSeq(spec, <<":", "=">>) IN trim(SubSeq(spec, i + 2, Len(spec)))

\* Variant: the two sides of the spec may be empty.
validate_name_expr_spec_AnySides(spec) ==
  /\ ContainsSeq(spec, <<":", "=">>)
  /\ validate_identifier(CreateName(spec))
  /\ ~LooksIncomplete(CreateExpr(spec))
  /\ validate_common_blocklist(CreateExpr(spec))
  /\ validate_assignment_free(CreateExpr(spec))

validate_name_expr_spec(spec) ==
  /\ ContainsSeq(spec, <<":", "=">>)
  /\ CreateName(spec) # << >>
  /\ CreateExpr(spec) # << >>
  /\ validate_identifier(CreateName(spec))
  /\ ~LooksIncomplete(CreateExpr(spec))
  /\ validate_common_blocklist(CreateExpr(spec))
  /\ validate_assignment_free(CreateExpr(spec))

validate_append_snippet(snippet) ==
  /\ trim(snippet) # << >>
  /\ validate_common_blocklist(snippet)
  /\ ~(\E i \in 1..Len(snippet) :
         /\ (i = 1 \/ ~IsIdentTok(snippet[i - 1]))
         /\ \/ (snippet[i] = "." /\ i < Len(snippet)
                  /\ Lower(snippet[i + 1]) = "globalenv")
            \/ (Lower(snippet[i]) = "globalenv"
                  /\ \E j \in (i + 1)..Len(snippet) :
                       snippet[j] = "(" /\ AllWs(snippet, i + 1, j - 1)))
  /\ validate_append_file_restrictions(snippet)

validate_result_expr(expr) ==
  /\ trim(expr) # << >>
  /\ \A k \in 1..Len(expr) : expr[k] # "\n"
  /\ validate_common_blocklist(expr)
  /\ validate_assignment_free(expr)

validate_state_export_expr(expr) ==
  /\ trim(expr) # << >>
  /\ \A k \in 1..Len(expr) : expr[k] # "\n"
  /\ validate_common_blocklist(expr)
  /\ validate_assignment_free(expr)

validate_modify_global_snippet(snippet) ==
  /\ trim(snippet) # << >>
  /\ validate_common_blocklist(snippet)

\* Variant that accepts any request id and timeout.
ensure_int_string_Any(value) == TRUE

\* re.fullmatch(r"\d+", value)
ensure_int_string(value) ==
  /\ Len(value) >= 1
  /\ \A k \in 1..Len(value) : value[k] \in Digits

(***************************************************************************)
(* Bounds of the model                                                     *)
(***************************************************************************)

\* Accepted capability and option lines (append:, out:, ...) over one run.
MaxLines == 2

\* Dispatches ('send') over one run of the tool.
MaxSends == 1

\* Dispatches over one run of the tool in the specification of the session
\* search, where what one dispatch leaves behind meets the next.
MaxProbes == 2

\* Poll iterations the clock allows before the deadline has passed.
MaxPolls == 2

(***************************************************************************)
(* Request State (class State) and the tool's surroundings                 *)
(***************************************************************************)

VARIABLES
  state,      \* the State dataclass of repl()
  pc,         \* where the tool is: "prompt", a step of send_current_state, "exited"
  nlines,     \* accepted capability and option lines so far (bounded by MaxLines)
  nsend,      \* dispatches started so far (bounded by MaxSends)
  ctx,        \* SendContext of the dispatch in progress
  steps,      \* the steps the dispatch in progress has completed, in order
  exc,        \* exception propagating out of send_current_state, "none" if none
  success,    \* the local `success` of send_current_state
  r_code,     \* the fragment build_r_code returned (a sequence of instructions)
  session_dir,\* the directory resolve_session_dir returned
  busy_read,  \* what check_session_busy_before_rpc read from the flag file
  rc,         \* what run_rpc_send returned
  transport,  \* what the transport call did and how it was classified
  polls,      \* iterations of the poll loop done in this dispatch
  files,      \* the artifact files: path -> [exists, data]
  remote,     \* fragments accepted by the console that have not written yet
  emitted,    \* what this dispatch printed on stdout from the artifact
  diagnosed,  \* times diagnose_result_wait_timeout ran in this dispatch
  sessions,   \* the session directories on disk
  procs,      \* the process table: pid -> "rsession" | "other" | "dead"
  osenv,      \* os.environ of the tool
  report,     \* what the loop reported about the send that just ended
  \* the remote interpreter running one synthesized fragment
  fip,                \* index in r_code of the instruction to run next
  g_env,              \* .GlobalEnv: name -> "absent" or the origin of its value
  codex_before,       \* .codex_before
  codex_after,        \* .codex_after
  codex_exec_error,   \* .codex_exec_error
  codex_exec_result,  \* .codex_exec_result
  codex_result_expr,  \* .codex_result_expr
  blockval,           \* value of the last statement run in .codex_run_core
  artifact,           \* what has been written to .codex_result_out_path
  export_file,        \* whether the export file exists
  raised,             \* the error the fragment ended with
  hist,               \* what the Create lines saw and did
  osenv0,             \* os.environ as it was when the tool started
  diag                \* what the tool last printed about a timeout

vars ==
  <<state, pc, nlines, nsend, ctx, steps, exc, success, r_code,
    session_dir, busy_read, rc, transport, polls, files, remote, emitted, diagnosed,
    sessions, procs, osenv, report,
    fip, g_env, codex_before, codex_after, codex_exec_error,
    codex_exec_result, codex_result_expr, blockval, artifact, export_file,
    raised, hist, osenv0, diag>>

\* State() as constructed at interact_with_rstudio.py:973
NewState ==
  [append_code_snippets |-> << >>,
   result_expr |-> << >>,
   state_export_expr |-> << >>,
   create_global_specs |-> << >>,
   modify_global_snippets |-> << >>,
   session_dir |-> << >>,
   request_id |-> <<"1">>,
   out_path |-> << >>,
   timeout_seconds |-> <<"8">>,
   rpc_timeout_seconds |-> <<"1", "2">>,
   benchmark_mode |-> FALSE,
   benchmark_unit |-> <<"seconds">>,
   capture_output |-> FALSE]

clear_capabilities(st) ==
  [st EXCEPT !.append_code_snippets = << >>,
             !.result_expr = << >>,
             !.state_export_expr = << >>,
             !.create_global_specs = << >>,
             !.modify_global_snippets = << >>,
             !.benchmark_mode = FALSE]

pending_capability_count(st) ==
  Len(st.append_code_snippets)
  + (IF st.result_expr # << >> THEN 1 ELSE 0)
  + (IF st.state_export_expr # << >> THEN 1 ELSE 0)
  + Len(st.create_global_specs)
  + Len(st.modify_global_snippets)

\* parse_bool: "yes" for True, "no" for False, "error" for ValidationError
parse_bool(value) ==
  LET n == trim(value) IN
  IF Len(n) = 1 /\ (Lower(n[1]) \in {"1", "true", "on", "yes"}) THEN "yes"
  ELSE IF Len(n) = 1 /\ (Lower(n[1]) \in {"0", "false", "off", "no"}) THEN "no"
  ELSE "error"

(***************************************************************************)
(* The input lines the caller types                                        *)
(***************************************************************************)

UserOut == <<"/", "tmp", "/", "out">>

CapabilityLines ==
  { <<"append", ":", "x">>,
    <<"append", ":", " ">>,
    <<"result", ":", "x">>,
    <<"result", ":", "x", "<", "-", "1">>,
    <<"export", ":", "y">>,
    <<"create", ":", "a", ":", "=", "1">>,
    <<"create", ":", " ", "a", " ", ":", "=", "2">>,
    <<"create", ":", "b", ":", "=", "2">>,
    <<"create", ":", "a">>,
    <<"modify", ":", "rm", "(", "x", ")">>,
    <<"modify", ":", "y", "<", "<", "-", "1">> }

OptionLines ==
  { <<"out", ":", " ">> \o UserOut,
    <<"timeout", ":", "0">>,
    <<"benchmark", ":", "on">>,
    <<"benchmark", ":", "maybe">>,
    <<"benchmark", "-", "unit", ":", "ms">>,
    <<"capture", "-", "output", ":", "on">>,
    <<"session", "-", "dir", ":", "s2">>,
    <<"id", ":", "x">> }

OtherLines ==
  { <<"bogus", ":", "x">>, <<"x">>, <<"show">> }

\* Capability lines that probe the policy: arrows in every role, and
\* Create specs that are malformed, badly named or named twice.
PolicyLines ==
  { <<"append", ":", "x", "<", "-", "1">>,
    <<"append", ":", "1", "-", ">", "x">>,
    <<"append", ":", "x", "<", "<", "-", "1">>,
    <<"result", ":", "x">>,
    <<"result", ":", "x", "<", "-", "1">>,
    <<"result", ":", "1", "-", ">", "x">>,
    <<"export", ":", "y", "<", "-", "1">>,
    <<"export", ":", "1", "-", ">", "y">>,
    <<"create", ":", "a", ":", "=", "1">>,
    <<"create", ":", " ", "a", " ", ":", "=", "2">>,
    <<"create", ":", "b", ":", "=", "2">>,
    <<"create", ":", "a", ":", "=", "x", "<", "-", "1">>,
    <<"create", ":", "a", ":", "=", "1", "-", ">", "x">>,
    <<"create", ":", "a">>,
    <<"create", ":", ":", "=", "1">>,
    <<"create", ":", " ", ":", "=", "1">>,
    <<"create", ":", "a", ":", "=">>,
    <<"create", ":", "a", ":", "=", " ">>,
    <<"create", ":", "1", "a", ":", "=", "1">>,
    <<"modify", ":", "y", "<", "-", "1">>,
    <<"modify", ":", "1", "-", ">", "y">>,
    <<"modify", ":", "y", "<", "<", "-", "1">>,
    <<"modify", ":", "1", "-", ">", ">", "y">> }

\* Option lines that probe the checks of the option values: request id,
\* both timeouts, booleans and the benchmark unit, accepted and rejected.
OptionProbeLines ==
  { <<"id", ":", " ", "5">>,
    <<"id", ":", "-", "1">>,
    <<"id", ":">>,
    <<"timeout", ":", "2", "0">>,
    <<"timeout", ":", "x">>,
    <<"timeout", ":", " ">>,
    <<"rpc", "-", "timeout", ":", "5", " ">>,
    <<"rpc", "-", "timeout", ":", "x">>,
    <<"rpc", "-", "timeout", ":", "1", " ", "2">>,
    <<"benchmark", ":", "off">>,
    <<"benchmark", "-", "unit", ":", "x">>,
    <<"benchmark", "-", "unit", ":", " ", "ms">>,
    <<"capture", "-", "output", ":", "maybe">>,
    <<"capture", "-", "output", ":", " ">> }

\* The lines that count against MaxLines when they are accepted.
CountedLines ==
  CapabilityLines \cup OptionLines \cup PolicyLines \cup OptionProbeLines

\* line.split(":", 1)
LinePrefix(line) == SubSeq(line, 1, FindSeq(line, <<":">>) - 1)

LinePayload(line) == SubSeq(line, FindSeq(line, <<":">>) + 1, Len(line))

\* prefix.strip().lower()
LineKey(line) ==
  LET p == trim(LinePrefix(line)) IN [k \in 1..Len(p) |-> Lower(p[k])]

\* apply_input_line for a '<prefix>:<payload>' line: the new State, or the
\* string "ValidationError" when the line is rejected.
ApplyKeyed(st, line) ==
  LET key == LineKey(line)
      payload == LinePayload(line)
      bad == [ok |-> FALSE, st |-> st]
      good(s) == [ok |-> TRUE, st |-> s]
  IN
  IF key \in {<<"append">>, <<"append", "-", "code">>} THEN
    IF validate_append_snippet(payload)
      THEN good([st EXCEPT !.append_code_snippets = Append(@, payload)])
      ELSE bad
  ELSE IF key \in {<<"result">>, <<"set", "-", "result", "-", "expr">>} THEN
    IF validate_result_expr(payload)
      THEN good([st EXCEPT !.result_expr = payload]) ELSE bad
  ELSE IF key \in {<<"export">>, <<"r", "-", "state", "-", "export">>} THEN
    IF validate_state_export_expr(payload)
      THEN good([st EXCEPT !.state_export_expr = payload]) ELSE bad
  ELSE IF key \in {<<"create">>, <<"create", "-", "global", "-", "variable">>} THEN
    IF validate_name_expr_spec(payload)
      THEN good([st EXCEPT !.create_global_specs = Append(@, payload)])
      ELSE bad
  ELSE IF key \in {<<"modify">>, <<"modify", "-", "global", "-", "env">>} THEN
    IF validate_modify_global_snippet(payload)
      THEN good([st EXCEPT !.modify_global_snippets = Append(@, payload)])
      ELSE bad
  ELSE IF key = <<"session", "-", "dir">> THEN
    good([st EXCEPT !.session_dir = trim(payload)])
  ELSE IF key = <<"id">> THEN
    IF ensure_int_string(trim(payload))
      THEN good([st EXCEPT !.request_id = trim(payload)]) ELSE bad
  ELSE IF key = <<"out">> THEN
    good([st EXCEPT !.out_path = trim(payload)])
  ELSE IF key = <<"timeout">> THEN
    IF ensure_int_string(trim(payload))
      THEN good([st EXCEPT !.timeout_seconds = trim(payload)]) ELSE bad
  ELSE IF key = <<"rpc", "-", "timeout">> THEN
    IF ensure_int_string(trim(payload))
      THEN good([st EXCEPT !.rpc_timeout_seconds = trim(payload)]) ELSE bad
  ELSE IF key = <<"benchmark">> THEN
    IF parse_bool(payload) = "error" THEN bad
      ELSE good([st EXCEPT !.benchmark_mode = (parse_bool(payload) = "yes")])
  ELSE IF key = <<"benchmark", "-", "unit">> THEN
    IF trim(payload) \in {<<"seconds">>, <<"ms">>}
      THEN good([st EXCEPT !.benchmark_unit = trim(payload)]) ELSE bad
  ELSE IF key = <<"capture", "-", "output">> THEN
    IF parse_bool(payload) = "error" THEN bad
      ELSE good([st EXCEPT !.capture_output = (parse_bool(payload) = "yes")])
  ELSE bad

\* apply_input_line: [action, ok, st].  action is "send", "quit" or "none".
apply_input_line(st, line) ==
  LET normalized == trim(line) IN
  IF normalized = << >> THEN [action |-> "none", ok |-> TRUE, st |-> st]
  ELSE IF normalized \in {<<"help">>, <<"?">>, <<"show">>}
    THEN [action |-> "none", ok |-> TRUE, st |-> st]
  ELSE IF normalized = <<"clear">>
    THEN [action |-> "none", ok |-> TRUE, st |-> clear_capabilities(st)]
  ELSE IF normalized = <<"send">>
    THEN [action |-> "send", ok |-> TRUE, st |-> st]
  ELSE IF normalized \in {<<"quit">>, <<"exit">>}
    THEN [action |-> "quit", ok |-> TRUE, st |-> st]
  ELSE IF ~ContainsSeq(line, <<":">>)
    THEN [action |-> "none", ok |-> FALSE, st |-> st]
  ELSE [action |-> "none"] @@ ApplyKeyed(st, line)

(***************************************************************************)
(* Session resolver and session environment                                *)
(***************************************************************************)

\* Directories under ~/.local/share/rstudio/sessions/active
Dirs == {"s1", "s2"}

\* session_pid_is_alive: digits, /proc/<pid> exists, command line is rsession
session_pid_is_alive(pid, pt) ==
  /\ pid # ""
  /\ pid \in DOMAIN pt
  /\ pt[pid] = "rsession"

\* active_session_dirs: the directories, newest modification time first
active_session_dirs(sess) ==
  LET a == CHOOSE d \in Dirs : \A e \in Dirs : sess[e].mtime <= sess[d].mtime
      b == CHOOSE d \in Dirs : d # a
  IN <<a, b>>

\* The first element of seq q that satisfies P, "" when none does.
FirstDir(q, P(_)) ==
  IF \E i \in 1..Len(q) : P(q[i])
    THEN q[CHOOSE i \in 1..Len(q) : P(q[i]) /\ \A k \in 1..(i - 1) : ~P(q[k])]
    ELSE ""

\* Variant whose search by owner does not ask for the snapshot file.
search_session_dir_OwnerWithoutSnapshot(sess, env, pt) ==
  LET current_pid == env.pid
      cands == active_session_dirs(sess)
      Owned(d) == sess[d].env /\ sess[d].pid = current_pid
      HasSnap(d) == sess[d].snap
      byPid == IF session_pid_is_alive(current_pid, pt)
                 THEN FirstDir(cands, Owned) ELSE ""
  IN IF byPid # "" THEN byPid ELSE FirstDir(cands, HasSnap)

\* The search of resolve_session_dir over the candidate directories
\* (lines 233-249): the directory found, or "" when it raises SendError.
search_session_dir(sess, env, pt) ==
  LET current_pid == env.pid
      cands == active_session_dirs(sess)
      Owned(d) == sess[d].snap /\ sess[d].env /\ sess[d].pid = current_pid
      HasSnap(d) == sess[d].snap
      byPid == IF session_pid_is_alive(current_pid, pt)
                 THEN FirstDir(cands, Owned) ELSE ""
  IN IF byPid # "" THEN byPid ELSE FirstDir(cands, HasSnap)

\* Whether the directory named by the session-dir option holds the snapshot.
GivenHasSnapshot(st, sess) ==
  /\ Len(st.session_dir) = 1
  /\ st.session_dir[1] \in Dirs
  /\ sess[st.session_dir[1]].snap

\* Variant that falls back to the search when the given directory has no
\* snapshot.
resolve_session_dir_FallsBack(st, sess, env, pt) ==
  IF st.session_dir # << >> /\ GivenHasSnapshot(st, sess)
    THEN st.session_dir[1]
    ELSE search_session_dir(sess, env, pt)

\* resolve_session_dir: the directory, or "" when it raises SendError
resolve_session_dir(st, sess, env, pt) ==
  IF st.session_dir # << >> THEN
    IF GivenHasSnapshot(st, sess) THEN st.session_dir[1] ELSE ""
  ELSE search_session_dir(sess, env, pt)

\* apply_env_file: every key="value" line of the file goes into os.environ
apply_env_file(env, d, sess) ==
  IF ~sess[d].env THEN env
  ELSE [pid |-> IF sess[d].pid # "" THEN sess[d].pid ELSE env.pid,
        stream |-> IF sess[d].stream # "" THEN sess[d].stream ELSE env.stream,
        token |-> IF sess[d].token # "" THEN sess[d].token ELSE env.token]

\* infer_stream_from_pid: the stem of the *.pid file that records the pid
infer_stream_from_pid(pid) == IF pid = "100" THEN "stream100" ELSE ""

\* Variant without the early return for a caller that has live values.
load_session_environment_NoEarlyReturn(env, d, sess, pt) ==
  LET e1 == IF sess[d].env /\ session_pid_is_alive(sess[d].pid, pt)
              THEN apply_env_file(env, d, sess) ELSE env
      e2 == IF (e1.stream = "" \/ e1.token = "") /\ sess[d].env
              THEN apply_env_file(e1, d, sess) ELSE e1
  IN IF e2.stream = "" /\ session_pid_is_alive(e2.pid, pt)
          /\ infer_stream_from_pid(e2.pid) # ""
       THEN [e2 EXCEPT !.stream = infer_stream_from_pid(e2.pid)]
       ELSE e2

load_session_environment(env, d, sess, pt) ==
  IF env.stream # "" /\ env.token # "" /\ session_pid_is_alive(env.pid, pt)
    THEN env
  ELSE
    LET e1 == IF sess[d].env /\ session_pid_is_alive(sess[d].pid, pt)
                THEN apply_env_file(env, d, sess) ELSE env
        e2 == IF (e1.stream = "" \/ e1.token = "") /\ sess[d].env
                THEN apply_env_file(e1, d, sess) ELSE e1
    IN IF e2.stream = "" /\ session_pid_is_alive(e2.pid, pt)
            /\ infer_stream_from_pid(e2.pid) # ""
         THEN [e2 EXCEPT !.stream = infer_stream_from_pid(e2.pid)]
         ELSE e2

\* The process table: two live rsessions, one live process of another kind,
\* one id that names no process.
ProcessTable == [p \in {"100", "110", "200", "300"} |->
                   CASE p \in {"100", "110"} -> "rsession" [] p = "200" -> "other"
                     [] OTHER -> "dead"]

NoSession ==
  [snap |-> FALSE, env |-> FALSE, pid |-> "", stream |-> "", token |-> "",
   mtime |-> 0]

\* The on-disk layouts the runs start from.
SessionLayouts ==
  { [d \in Dirs |->
       IF d = "s1"
         THEN [snap |-> TRUE, env |-> TRUE, pid |-> "100", stream |-> "st1",
               token |-> "tk1", mtime |-> 2]
         ELSE [snap |-> TRUE, env |-> TRUE, pid |-> "300", stream |-> "st2",
               token |-> "tk2", mtime |-> 1]],
    [d \in Dirs |->
       IF d = "s1"
         THEN [snap |-> TRUE, env |-> TRUE, pid |-> "100", stream |-> "st1",
               token |-> "tk1", mtime |-> 2]
         ELSE [NoSession EXCEPT !.mtime = 1]],
    [d \in Dirs |-> [NoSession EXCEPT !.mtime = IF d = "s1" THEN 2 ELSE 1]] }

EnvChoices ==
  { [pid |-> "", stream |-> "", token |-> ""],
    [pid |-> "100", stream |-> "live", token |-> "livetk"] }

\* The starting worlds explored: a tool started inside a live session
\* (RSTUDIO_SESSION_PID inherited) finds every candidate directory
\* populated or none; a tool started outside finds at most one populated.
StartWorld(sess, env) ==
  IF env.pid # ""
    THEN (\A d \in Dirs : sess[d].snap) \/ (\A d \in Dirs : ~sess[d].snap)
    ELSE ~(\A d \in Dirs : sess[d].snap)

(***************************************************************************)
(* Send validation and the Send Context                                    *)
(***************************************************************************)

NumTok(n) ==
  CASE n = 0 -> "0" [] n = 1 -> "1" [] n = 2 -> "2" [] n = 3 -> "3"
    [] n = 4 -> "4" [] OTHER -> "5"

\* tempfile.mkstemp names, one pair per dispatch
TmpRes(n) == <<"/", "tmp", "/", "res", NumTok(n)>>

TmpExp(n) == <<"/", "tmp", "/", "exp", NumTok(n)>>

Paths == {UserOut} \cup {TmpRes(n) : n \in 1..(MaxProbes + 1)}
           \cup {TmpExp(n) : n \in 1..(MaxProbes + 1)}

\* Variant of the export rule that forgets Create.
ExportCombinationOk_ForgetsCreate(st) ==
  st.state_export_expr # << >> =>
    /\ st.result_expr = << >>
    /\ st.modify_global_snippets = << >>

\* "export cannot be combined with result, create, or modify" (lines 455-459)
ExportCombinationOk(st) ==
  st.state_export_expr # << >> =>
    /\ st.result_expr = << >>
    /\ st.create_global_specs = << >>
    /\ st.modify_global_snippets = << >>

\* Variant of the benchmark rule that does not require a Result.
BenchmarkCombinationOk_ResultOptional(st) ==
  st.benchmark_mode =>
    /\ st.state_export_expr = << >>
    /\ st.create_global_specs = << >>
    /\ st.modify_global_snippets = << >>

\* "benchmark requires result", "benchmark cannot be combined with export,
\* create, or modify" (lines 464-470)
BenchmarkCombinationOk(st) ==
  st.benchmark_mode =>
    /\ st.result_expr # << >>
    /\ st.state_export_expr = << >>
    /\ st.create_global_specs = << >>
    /\ st.modify_global_snippets = << >>

\* validate_state_for_send up to its last raise: TRUE when nothing is raised
validate_state_for_send(st) ==
  LET has_append == st.append_code_snippets # << >>
      has_result == st.result_expr # << >>
      has_export == st.state_export_expr # << >>
      has_create == st.create_global_specs # << >>
      has_modify == st.modify_global_snippets # << >>
      has_any == has_append \/ has_result \/ has_export \/ has_create \/ has_modify
  IN
  /\ has_any
  /\ ExportCombinationOk(st)
  /\ st.benchmark_unit \in {<<"seconds">>, <<"ms">>}
  /\ BenchmarkCombinationOk(st)
  /\ ensure_int_string(st.request_id)
  /\ ensure_int_string(st.timeout_seconds)
  /\ ensure_int_string(st.rpc_timeout_seconds)
  /\ \A i \in 1..Len(st.append_code_snippets) :
       validate_append_snippet(st.append_code_snippets[i])
  /\ (has_result => validate_result_expr(st.result_expr))
  /\ (has_export => validate_state_export_expr(st.state_export_expr))
  /\ \A i \in 1..Len(st.create_global_specs) :
       validate_name_expr_spec(st.create_global_specs[i])
  /\ \A i \in 1..Len(st.modify_global_snippets) :
       validate_modify_global_snippet(st.modify_global_snippets[i])
  /\ (st.capture_output => (has_result \/ has_export))

\* expect_result = bool(state.result_expr or state.state_export_expr)
ExpectResult(st) == st.result_expr # << >> \/ st.state_export_expr # << >>

\* The SendContext validate_state_for_send returns for dispatch number n
SendContextOf(st, n) ==
  [expect_result |-> ExpectResult(st),
   out_path |-> IF ExpectResult(st) /\ st.out_path = << >>
                  THEN TmpRes(n) ELSE st.out_path,
   is_temp_out_path |-> ExpectResult(st) /\ st.out_path = << >>,
   state_export_path |-> IF st.state_export_expr # << >> THEN TmpExp(n) ELSE << >>,
   append_only |-> /\ st.append_code_snippets # << >>
                   /\ ~(\/ st.result_expr # << >>
                        \/ st.state_export_expr # << >>
                        \/ st.create_global_specs # << >>
                        \/ st.modify_global_snippets # << >>)]

NoCtx ==
  [expect_result |-> FALSE, out_path |-> << >>, is_temp_out_path |-> FALSE,
   state_export_path |-> << >>, append_only |-> FALSE]

(***************************************************************************)
(* Code synthesizer.  The fragment is a sequence of instructions, one per  *)
(* statement build_r_code emits.                                           *)
(***************************************************************************)

Instr(op, arg, name) == [op |-> op, arg |-> arg, name |-> name, names |-> << >>]

RECURSIVE escape_for_r_string(_)
escape_for_r_string(v) ==
  IF v = << >> THEN << >>
  ELSE (CASE Head(v) = "\\" -> <<"\\", "\\">>
          [] Head(v) = "\"" -> <<"\\", "\"">>
          [] Head(v) = "\n" -> <<"\\", "n">>
          [] OTHER -> <<Head(v)>>) \o escape_for_r_string(Tail(v))

\* r_exec_lines (lines 581-604)
ExecInstrs(st, c) ==
  [i \in 1..Len(st.append_code_snippets) |->
     Instr("append", st.append_code_snippets[i], << >>)]
  \o (IF st.result_expr = << >> THEN << >>
      ELSE IF st.benchmark_mode
        THEN <<Instr("bench_t0", << >>, << >>),
               Instr("bench_result", st.result_expr, << >>)>>
             \o (IF st.benchmark_unit = <<"ms">>
                   THEN <<Instr("bench_ms", << >>, << >>)>> ELSE << >>)
        ELSE <<Instr("result", st.result_expr, << >>)>>)
  \o (IF st.state_export_expr = << >> THEN << >>
      ELSE <<Instr("export_path", escape_for_r_string(c.state_export_path), << >>),
             Instr("export_eval", st.state_export_expr, << >>),
             Instr("export_save", << >>, << >>),
             Instr("export_rm", << >>, << >>),
             Instr("export_check", << >>, << >>),
             Instr("export_result", << >>, << >>)>>)

\* r_create_names (line 612)
CreateNames(st) ==
  [i \in 1..Len(st.create_global_specs) |-> CreateName(st.create_global_specs[i])]

\* r_create_lines (lines 613-617): refuse, evaluate, bind
CreateInstrs(st) ==
  [k \in 1..(3 * Len(st.create_global_specs)) |->
     LET spec == st.create_global_specs[(k + 2) \div 3]
         j == (k - 1) % 3
     IN IF j = 0 THEN Instr("create_check", << >>, CreateName(spec))
        ELSE IF j = 1 THEN Instr("create_eval", CreateExpr(spec), CreateName(spec))
        ELSE Instr("create_assign", << >>, CreateName(spec))]

\* r_modify_lines (lines 619-621)
ModifyInstrs(st) ==
  [i \in 1..Len(st.modify_global_snippets) |->
     Instr("modify", escape_for_r_string(st.modify_global_snippets[i]), << >>)]

\* Variant that emits the serialization branches for every request.
WriteInstrs_Always(c) ==
  <<Instr("write_exec_error", escape_for_r_string(c.out_path), << >>),
    Instr("write_no_result", escape_for_r_string(c.out_path), << >>),
    Instr("write_result_error", escape_for_r_string(c.out_path), << >>),
    Instr("write_value", escape_for_r_string(c.out_path), << >>)>>

\* The four serialization branches (lines 671-703)
WriteInstrs(c) ==
  IF c.expect_result
    THEN <<Instr("write_exec_error", escape_for_r_string(c.out_path), << >>),
           Instr("write_no_result", escape_for_r_string(c.out_path), << >>),
           Instr("write_result_error", escape_for_r_string(c.out_path), << >>),
           Instr("write_value", escape_for_r_string(c.out_path), << >>)>>
    ELSE << >>

\* Variant that never compares the Create names.
BuildRaises_NoDuplicateCheck(st) ==
  \E i \in 1..Len(st.create_global_specs) :
    ~validate_name_expr_spec(st.create_global_specs[i])

\* build_r_code raises ValidationError for a malformed or duplicated Create
BuildRaises(st) ==
  \/ \E i \in 1..Len(st.create_global_specs) :
       ~validate_name_expr_spec(st.create_global_specs[i])
  \/ \E i, j \in 1..Len(st.create_global_specs) :
       i < j /\ CreateNames(st)[i] = CreateNames(st)[j]

build_r_code(st, c) ==
  <<Instr("snapshot_before", << >>, << >>),
    [Instr("allowed_added", << >>, << >>) EXCEPT !.names = CreateNames(st)],
    Instr("capture_output", IF st.capture_output THEN <<"TRUE">> ELSE <<"FALSE">>,
          << >>),
    Instr("try_begin", << >>, << >>),
    Instr("with_begin", << >>, << >>)>>
  \o ExecInstrs(st, c)
  \o <<Instr("with_end", << >>, << >>)>>
  \o CreateInstrs(st) \o ModifyInstrs(st)
  \o <<Instr("try_end", << >>, << >>)>>
  \o WriteInstrs(c)
  \o <<Instr("reraise", << >>, << >>),
       Instr("snapshot_after", << >>, << >>),
       Instr("leak_check", << >>, << >>)>>

HasOp(code, ops) == \E i \in 1..Len(code) : code[i].op \in ops

WriteOps ==
  {"write_exec_error", "write_no_result", "write_result_error", "write_value"}

(***************************************************************************)
(* Busy precheck and transport                                             *)
(***************************************************************************)

\* What the flag file may hold; "missing" stands for no file at that path.
FlagContents == {<<"1">>, <<"0">>, <<"1", "\n">>, <<" ", "1">>, << >>}

NoFlag == <<"missing">>

\* A path that exists and whose read_text raises OSError.
Unreadable == <<"unreadable">>

FlagFiles == FlagContents \cup {NoFlag, Unreadable}

\* Variant that tries the fixed spelling first.
get_session_property_file_FixedFirst(typo, fixed) ==
  IF fixed # NoFlag THEN fixed ELSE typo

\* get_session_property_file + read_text: typo spelling first, then the fixed
get_session_property_file(typo, fixed) ==
  IF typo # NoFlag THEN typo ELSE fixed

\* executing_value of check_session_busy_before_rpc
ExecutingValue(typo, fixed) ==
  IF get_session_property_file(typo, fixed) \in {NoFlag, Unreadable} THEN << >>
  ELSE RemoveWs(get_session_property_file(typo, fixed))

\* check_session_busy_before_rpc: FALSE when the session is busy
check_session_busy_before_rpc(value) == value # <<"1">>

\* Variant that takes only exit status 124 for a timeout.
classify_Only124(rpc_rc, has_error, has_result) ==
  IF rpc_rc = 124 THEN "TimedOut"
  ELSE IF has_error THEN "ProtocolError"
  ELSE IF has_result THEN "Accepted"
  ELSE "Indeterminate"

\* Variant that looks for the "result" marker before the "error" marker.
classify_ResultFirst(rpc_rc, has_error, has_result) ==
  IF rpc_rc \in {124, 137} THEN "TimedOut"
  ELSE IF has_result THEN "Accepted"
  ELSE IF has_error THEN "ProtocolError"
  ELSE "Indeterminate"

\* How main() of the low-level script classifies the call from the exit
\* status of rpostback and the markers in its output (lines 191-236).
classify(rpc_rc, has_error, has_result) ==
  IF rpc_rc \in {124, 137} THEN "TimedOut"
  ELSE IF has_error THEN "ProtocolError"
  ELSE IF has_result THEN "Accepted"
  ELSE "Indeterminate"

\* main() of the low-level script from run_rpostback on (lines 186-236)
rpc_main(rpc_rc, has_error, has_result) ==
  IF classify(rpc_rc, has_error, has_result) = "Accepted" THEN 0 ELSE 1

\* Whether main() of the low-level script prints the session metadata line
\* (lines 190-200): it does after run_rpostback returned 124 or 137; a
\* script that the outer wrapper of run_rpc_send killed (lines 723-731)
\* prints nothing.
surfaces_metadata(killed, rpc_rc) == killed = 0 /\ rpc_rc \in {124, 137}

\* No transport call has been made in this dispatch.
NoTransport ==
  [rpc_rc |-> 0, has_error |-> FALSE, has_result |-> FALSE, killed |-> 0,
   class |-> "none"]

\* run_rpc_send (lines 743-747) on the exit status of the wrapped script
run_rpc_send(returncode) == IF returncode \in {124, 137} THEN 124 ELSE returncode

RpostbackExits == {0, 1, 124, 137}

(***************************************************************************)
(* Artifact files                                                          *)
(***************************************************************************)

NoFile == [exists |-> FALSE, kind |-> "empty", req |-> 0]

EmptyFile == [exists |-> TRUE, kind |-> "empty", req |-> 0]

\* out_file.exists() and out_file.stat().st_size > 0
NonEmpty(f) == f.exists /\ f.kind # "empty"

DigitVal(t) ==
  CASE t = "0" -> 0 [] t = "1" -> 1 [] t = "2" -> 2 [] t = "5" -> 5
    [] OTHER -> 8

\* int(value) of a string of digits
RECURSIVE ToInt(_)
ToInt(v) ==
  IF v = << >> THEN 0
  ELSE 10 * ToInt(SubSeq(v, 1, Len(v) - 1)) + DigitVal(v[Len(v)])

(***************************************************************************)
(* The interactive loop (repl) and one dispatch (send_current_state)       *)
(***************************************************************************)

\* The names the interpreter's global namespace may hold
GNames == {<<"a">>, <<"b">>, <<"y">>}

\* Nothing printed about a timeout yet.
NoDiag ==
  [ran |-> FALSE, causes |-> {}, hints |-> {}, pid_state |-> "none",
   meta_pid_state |-> "none"]


\* The remote interpreter before any fragment has reached it
InterpIdle ==
  /\ fip = 0
  /\ g_env = [n \in GNames |-> "absent"]
  /\ codex_before = {}
  /\ codex_after = {}
  /\ codex_exec_error = "null"
  /\ codex_exec_result = "null"
  /\ codex_result_expr = "unset"
  /\ blockval = "null"
  /\ artifact = << >>
  /\ export_file = FALSE
  /\ raised = "none"
  /\ hist = {}

Init ==
  /\ state = NewState
  /\ pc = "prompt"
  /\ nlines = 0
  /\ nsend = 0
  /\ ctx = NoCtx
  /\ steps = << >>
  /\ exc = "none"
  /\ success = FALSE
  /\ r_code = << >>
  /\ session_dir = ""
  /\ busy_read = << >>
  /\ rc = 0
  /\ transport = NoTransport
  /\ polls = 0
  /\ files = [p \in Paths |-> NoFile]
  /\ remote = {}
  /\ emitted = << >>
  /\ diagnosed = 0
  /\ sessions \in SessionLayouts
  /\ procs = ProcessTable
  /\ osenv \in EnvChoices
  /\ StartWorld(sessions, osenv)
  /\ osenv0 = osenv
  /\ diag = NoDiag
  /\ report = "none"
  /\ InterpIdle

\* The order of the steps inside the try block of send_current_state.
NextStep(step) ==
  CASE step = "validate" -> "resolve"
    [] step = "resolve" -> "loadenv"
    [] step = "loadenv" -> "build"
    [] step = "build" -> "parse"
    [] step = "parse" -> "script"
    [] step = "script" -> "truncate"
    [] step = "truncate" -> "busy"
    [] step = "busy" -> "rpc"
    [] OTHER -> "finally"

\* Variant in which the result of the busy precheck is not looked at.
AfterStep_BusyIgnored(step, ok) ==
  IF ok \/ step = "busy" THEN NextStep(step) ELSE "finally"

\* Variant in which a failed parse check does not stop the dispatch.
AfterStep_ParseIgnored(step, ok) ==
  IF ok \/ step = "parse" THEN NextStep(step) ELSE "finally"

\* A step that raises leaves the try block for its finally clause.
AfterStep(step, ok) == IF ok THEN NextStep(step) ELSE "finally"

Did(step, ok) == Append(steps, [name |-> step, ok |-> ok])

DispatchLocals ==
  <<ctx, steps, exc, success, r_code, session_dir, busy_read, rc, transport, polls,
    emitted, diagnosed>>

World == <<sessions, procs, osenv0>>

\* The variables of the remote interpreter
Interp ==
  <<fip, g_env, codex_before, codex_after, codex_exec_error,
    codex_exec_result, codex_result_expr, blockval, artifact, export_file,
    raised, hist>>

Quiet == <<report, diag>>

\* One line read at the prompt that is not 'send' or 'quit' (lines 987-1003).
InputLine(line) ==
  /\ pc = "prompt"
  /\ nsend < MaxSends
  /\ LET r == apply_input_line(state, line) IN
       /\ r.action = "none"
       /\ (line \in CountedLines /\ r.ok => nlines < MaxLines)
       /\ state' = r.st
       /\ nlines' = IF line \in CountedLines /\ r.ok
                      THEN nlines + 1 ELSE nlines
  /\ report' = "none"
  /\ UNCHANGED <<pc, nsend, files, remote, osenv, diag>>
  /\ UNCHANGED DispatchLocals
  /\ UNCHANGED World
  /\ UNCHANGED Interp

\* 'quit', 'exit' or end of input (lines 980-990).
Quit ==
  /\ pc = "prompt"
  /\ apply_input_line(state, <<"quit">>).action = "quit"
  /\ pc' = "exited"
  /\ UNCHANGED <<state, nlines, nsend, files, remote, osenv>>
  /\ UNCHANGED DispatchLocals
  /\ UNCHANGED World
  /\ UNCHANGED Interp
  /\ UNCHANGED Quiet

\* 'send': validate_state_for_send, with the temporary files it creates
\* (lines 991-994, 761-763, 443-517).
Send ==
  /\ pc = "prompt"
  /\ nsend < MaxSends
  /\ apply_input_line(state, <<"send">>).action = "send"
  /\ nsend' = nsend + 1
  /\ LET ok == validate_state_for_send(state)
         c == SendContextOf(state, nsend + 1)
     IN /\ steps' = <<[name |-> "validate", ok |-> ok]>>
        /\ exc' = IF ok THEN "none" ELSE "ValidationError"
        /\ ctx' = IF ok THEN c ELSE NoCtx
        /\ pc' = IF ok THEN "resolve" ELSE "repl_finally"
        /\ files' = IF ~ok THEN files
                    ELSE [p \in Paths |->
                            IF (c.is_temp_out_path /\ p = c.out_path)
                                 \/ (c.state_export_path # << >> /\ p = c.state_export_path)
                              THEN EmptyFile ELSE files[p]]
  /\ success' = FALSE
  /\ r_code' = << >>
  /\ session_dir' = ""
  /\ busy_read' = << >>
  /\ rc' = 0
  /\ transport' = NoTransport
  /\ polls' = 0
  /\ emitted' = << >>
  /\ diagnosed' = 0
  /\ report' = "none"
  /\ UNCHANGED <<state, nlines, remote, osenv, diag>>
  /\ UNCHANGED World
  /\ UNCHANGED Interp

\* resolve_session_dir (line 766)
Resolve ==
  /\ pc = "resolve"
  /\ LET d == resolve_session_dir(state, sessions, osenv, procs) IN
       /\ session_dir' = d
       /\ steps' = Did("resolve", d # "")
       /\ exc' = IF d # "" THEN exc ELSE "SendError"
       /\ pc' = AfterStep("resolve", d # "")
  /\ UNCHANGED <<state, nlines, nsend, ctx, success, r_code,
                 busy_read, rc, transport, polls, files, remote, emitted, diagnosed,
                 osenv>>
  /\ UNCHANGED World
  /\ UNCHANGED Interp
  /\ UNCHANGED Quiet

\* load_session_environment (line 767)
LoadEnv ==
  /\ pc = "loadenv"
  /\ osenv' = load_session_environment(osenv, session_dir, sessions, procs)
  /\ steps' = Did("loadenv", TRUE)
  /\ pc' = AfterStep("loadenv", TRUE)
  /\ UNCHANGED <<state, nlines, nsend, ctx, exc, success, r_code,
                 session_dir, busy_read, rc, transport, polls, files, remote, emitted,
                 diagnosed>>
  /\ UNCHANGED World
  /\ UNCHANGED Interp
  /\ UNCHANGED Quiet

\* build_r_code (line 768)
Build ==
  /\ pc = "build"
  /\ LET ok == ~BuildRaises(state) IN
       /\ r_code' = IF ok THEN build_r_code(state, ctx) ELSE << >>
       /\ steps' = Did("build", ok)
       /\ exc' = IF ok THEN exc ELSE "ValidationError"
       /\ pc' = AfterStep("build", ok)
  /\ UNCHANGED <<state, nlines, nsend, ctx, success, session_dir,
                 busy_read, rc, transport, polls, files, remote, emitted, diagnosed,
                 osenv>>
  /\ UNCHANGED World
  /\ UNCHANGED Interp
  /\ UNCHANGED Quiet

\* Variant that reports a parse failure on the error stream only.
WritesSyntaxMarker_Never(parses, expect_result) == FALSE

\* Whether check_r_code_parse writes the __SYNTAX_ERROR__ payload to the
\* result artifact (lines 547, 558-562).
WritesSyntaxMarker(parses, expect_result) == ~parses /\ expect_result

\* check_r_code_parse (lines 777, 530-572): Rscript decides whether the
\* fragment parses; on failure the marker goes into the result artifact.
ParseCheck ==
  /\ pc = "parse"
  /\ \E parses \in BOOLEAN :
       /\ steps' = Did("parse", parses)
       /\ exc' = IF parses THEN exc ELSE "ValidationError"
       /\ pc' = AfterStep("parse", parses)
       /\ files' = IF WritesSyntaxMarker(parses, ctx.expect_result)
                     THEN [files EXCEPT ![ctx.out_path] =
                             [exists |-> TRUE, kind |-> "syntax_error", req |-> nsend]]
                     ELSE files
  /\ UNCHANGED <<state, nlines, nsend, ctx, success, r_code,
                 session_dir, busy_read, rc, transport, polls, remote, emitted, diagnosed,
                 osenv>>
  /\ UNCHANGED World
  /\ UNCHANGED Interp
  /\ UNCHANGED Quiet

\* The Rscript process of check_r_code_parse does not return:
\* subprocess.run is called without a timeout (lines 541-545).
RscriptHangs ==
  /\ pc = "parse"
  /\ pc' = "parse_blocked"
  /\ UNCHANGED <<state, nlines, nsend, files, remote, osenv>>
  /\ UNCHANGED DispatchLocals
  /\ UNCHANGED World
  /\ UNCHANGED Interp
  /\ UNCHANGED Quiet

\* find_rpc_script (lines 783, 520-527)
FindScript ==
  /\ pc = "script"
  /\ \E found \in BOOLEAN :
       /\ steps' = Did("script", found)
       /\ exc' = IF found THEN exc ELSE "SendError"
       /\ pc' = AfterStep("script", found)
  /\ UNCHANGED <<state, nlines, nsend, ctx, success, r_code,
                 session_dir, busy_read, rc, transport, polls, files, remote, emitted,
                 diagnosed, osenv>>
  /\ UNCHANGED World
  /\ UNCHANGED Interp
  /\ UNCHANGED Quiet

\* Path(send_ctx.out_path).write_text("") (lines 799-800)
Truncate ==
  /\ pc = "truncate"
  /\ files' = IF ctx.expect_result
                THEN [files EXCEPT ![ctx.out_path] = EmptyFile] ELSE files
  /\ steps' = Did("truncate", TRUE)
  /\ pc' = AfterStep("truncate", TRUE)
  /\ UNCHANGED <<state, nlines, nsend, ctx, exc, success, r_code,
                 session_dir, busy_read, rc, transport, polls, remote, emitted, diagnosed,
                 osenv>>
  /\ UNCHANGED World
  /\ UNCHANGED Interp
  /\ UNCHANGED Quiet

\* check_session_busy_before_rpc (lines 802-803, 301-314)
BusyPrecheckOf(typo, fixed) ==
  /\ pc = "busy"
  /\ LET v == ExecutingValue(typo, fixed)
         ok == check_session_busy_before_rpc(v)
     IN /\ busy_read' = v
        /\ steps' = Did("busy", v # <<"1">>)
        /\ exc' = IF ok THEN exc ELSE "SendError"
        /\ pc' = AfterStep("busy", ok)
  /\ UNCHANGED <<state, nlines, nsend, ctx, success, r_code,
                 session_dir, rc, transport, polls, files, remote, emitted, diagnosed,
                 osenv>>
  /\ UNCHANGED World
  /\ UNCHANGED Interp
  /\ UNCHANGED Quiet

\* The precheck over what the two spellings of the flag file may hold.
BusyPrecheck ==
  \E typo \in FlagFiles, fixed \in FlagFiles : BusyPrecheckOf(typo, fixed)

\* Variant that waits for an artifact whatever run_rpc_send returned.
AfterRpc_IgnoresReturn(r, expect_result) ==
  IF expect_result THEN "poll" ELSE "finally"

\* Where the dispatch goes after run_rpc_send returned r (lines 812-829).
AfterRpc(r, expect_result) ==
  IF r # 0 THEN "finally" ELSE IF expect_result THEN "poll" ELSE "finally"

\* run_rpc_send (lines 806-813): the low-level script runs rpostback; the
\* outer timeout wrapper may kill the script (killed = 124 or 137), and then
\* the exit status and the error marker of rpostback are not looked at.
RpcSend ==
  /\ pc = "rpc"
  /\ \E rpc_rc \in RpostbackExits, has_error \in BOOLEAN, has_result \in BOOLEAN,
        killed \in {0, 124, 137} :
       LET returncode == IF killed # 0 THEN killed
                         ELSE rpc_main(rpc_rc, has_error, has_result)
           r == run_rpc_send(returncode)
       IN /\ killed # 0 => (rpc_rc = 0 /\ ~has_error)
          /\ rc' = r
          /\ transport' =
               [rpc_rc |-> rpc_rc, has_error |-> has_error,
                has_result |-> has_result, killed |-> killed,
                class |-> IF killed # 0 THEN "TimedOut"
                          ELSE classify(rpc_rc, has_error, has_result)]
          /\ steps' = IF AfterRpc(r, ctx.expect_result) = "poll"
                         THEN Did("rpc", r = 0) \o <<[name |-> "poll", ok |-> TRUE]>>
                         ELSE Did("rpc", r = 0)
          /\ exc' = IF r = 0 THEN exc ELSE "SendError"
          /\ success' = (r = 0 /\ ~ctx.expect_result)
          /\ pc' = AfterRpc(r, ctx.expect_result)
          /\ remote' = IF has_result /\ ctx.expect_result
                         THEN remote \cup {[req |-> nsend, path |-> ctx.out_path]}
                         ELSE remote
  /\ UNCHANGED <<state, nlines, nsend, ctx, r_code, session_dir,
                 busy_read, polls, files, emitted, diagnosed, osenv>>
  /\ UNCHANGED World
  /\ UNCHANGED Interp
  /\ UNCHANGED Quiet

\* One iteration of the poll loop (lines 818-822).
PollCheck ==
  /\ pc = "poll"
  /\ polls < ToInt(state.timeout_seconds)
  /\ polls < MaxPolls
  /\ IF NonEmpty(files[ctx.out_path])
       THEN /\ emitted' = Append(emitted, files[ctx.out_path])
            /\ pc' = "final"
            /\ steps' = Did("wait", TRUE)
            /\ polls' = polls
       ELSE /\ polls' = polls + 1
            /\ UNCHANGED <<emitted, pc, steps>>
  /\ UNCHANGED <<state, nlines, nsend, ctx, exc, success, r_code,
                 session_dir, busy_read, rc, transport, files, remote, diagnosed, osenv>>
  /\ UNCHANGED World
  /\ UNCHANGED Interp
  /\ UNCHANGED Quiet

\* time.time() < deadline is false: the loop ends (line 818).
PollDeadline ==
  /\ pc = "poll"
  /\ (ToInt(state.timeout_seconds) = 0 \/ polls >= 1)
  /\ pc' = "final"
  /\ steps' = Did("wait", FALSE)
  /\ UNCHANGED <<state, nlines, nsend, ctx, exc, success, r_code,
                 session_dir, busy_read, rc, transport, polls, files, remote, emitted,
                 diagnosed, osenv>>
  /\ UNCHANGED World
  /\ UNCHANGED Interp
  /\ UNCHANGED Quiet

\* Variant in which the timeout diagnoser is never called.
Diagnoses_Never(nonempty) == FALSE

\* Whether diagnose_result_wait_timeout is called by the check after the
\* loop, given what that check saw of the artifact (lines 824-826).
Diagnoses(nonempty) == ~nonempty

\* The check after the loop (lines 824-829).
FinalCheck ==
  /\ pc = "final"
  /\ diagnosed' = IF Diagnoses(NonEmpty(files[ctx.out_path]))
                     THEN diagnosed + 1 ELSE diagnosed
  /\ IF NonEmpty(files[ctx.out_path])
       THEN /\ success' = TRUE
            /\ steps' = Did("final", TRUE)
            /\ UNCHANGED exc
       ELSE /\ exc' = "SendError"
            /\ steps' = Did("final", FALSE)
            /\ UNCHANGED success
  /\ pc' = "finally"
  /\ UNCHANGED <<state, nlines, nsend, ctx, r_code, session_dir,
                 busy_read, rc, transport, polls, files, remote, emitted, osenv>>
  /\ UNCHANGED World
  /\ UNCHANGED Interp
  /\ UNCHANGED Quiet

\* Variant in which the cleanup is an except-Exception handler, which a
\* KeyboardInterrupt passes by.
Unwinds_ExceptionOnly(e) ==
  IF e = "KeyboardInterrupt" THEN "repl_finally" ELSE "finally"

\* Where control goes when e is raised inside the try block of
\* send_current_state: its finally clause, for every exception (line 830).
Unwinds(e) == "finally"

\* The caller interrupts the tool during a dispatch (KeyboardInterrupt).
Interrupt ==
  /\ pc \in {"resolve", "loadenv", "build", "parse", "parse_blocked", "script",
             "truncate", "busy", "rpc", "poll", "final"}
  /\ exc' = "KeyboardInterrupt"
  /\ success' = FALSE
  /\ pc' = Unwinds("KeyboardInterrupt")
  /\ UNCHANGED <<state, nlines, nsend, ctx, steps, r_code,
                 session_dir, busy_read, rc, transport, polls, files, remote, emitted,
                 diagnosed, osenv>>
  /\ UNCHANGED World
  /\ UNCHANGED Interp
  /\ UNCHANGED Quiet

\* Variant that never unlinks the export file.
CleanupRemoves_KeepsExport(p, c, ok) ==
  c.is_temp_out_path /\ c.out_path # << >> /\ p = c.out_path

\* Whether the finally clause of send_current_state unlinks path p, given
\* the SendContext c and the success flag ok (lines 831-840).
CleanupRemoves(p, c, ok) ==
  \/ c.is_temp_out_path /\ c.out_path # << >> /\ p = c.out_path
  \/ ~ok /\ c.state_export_path # << >> /\ p = c.state_export_path

\* The finally clause of send_current_state (lines 830-840).
Finally ==
  /\ pc = "finally"
  /\ files' = [p \in Paths |->
                 IF CleanupRemoves(p, ctx, success) THEN NoFile ELSE files[p]]
  /\ pc' = "repl_finally"
  /\ UNCHANGED <<state, nlines, nsend, ctx, steps, exc, success,
                 r_code, session_dir, busy_read, rc, transport, polls, remote, emitted,
                 diagnosed, osenv>>
  /\ UNCHANGED World
  /\ UNCHANGED Interp
  /\ UNCHANGED Quiet

\* Variant that clears the capabilities only after a successful send.
AfterSend_OnSuccessOnly(st, send_succeeded) ==
  IF send_succeeded THEN clear_capabilities(st) ELSE st

\* What repl() does with the State once send_current_state has ended,
\* whether it returned (send_succeeded) or raised (lines 992-997).
AfterSend(st, send_succeeded) == clear_capabilities(st)

\* The finally clause of repl() and its except clauses (lines 996-1007).
ReplFinally ==
  /\ pc = "repl_finally"
  /\ state' = AfterSend(state, success)
  /\ report' = IF success THEN "completed" ELSE exc
  /\ pc' = IF exc = "KeyboardInterrupt" THEN "exited" ELSE "prompt"
  /\ ctx' = NoCtx
  /\ steps' = << >>
  /\ exc' = "none"
  /\ success' = FALSE
  /\ r_code' = << >>
  /\ session_dir' = ""
  /\ busy_read' = << >>
  /\ rc' = 0
  /\ transport' = NoTransport
  /\ polls' = 0
  /\ emitted' = << >>
  /\ diagnosed' = 0
  /\ UNCHANGED <<nlines, nsend, files, remote, osenv, diag>>
  /\ UNCHANGED World
  /\ UNCHANGED Interp

\* The fragment of an accepted request writes its result artifact.
RemoteWrite ==
  /\ \E r \in remote, k \in {"value", "error"} :
       /\ files' = [files EXCEPT ![r.path] =
                      [exists |-> TRUE, kind |-> k, req |-> r.req]]
       /\ remote' = remote \ {r}
  /\ UNCHANGED <<state, pc, nlines, nsend, osenv>>
  /\ UNCHANGED DispatchLocals
  /\ UNCHANGED World
  /\ UNCHANGED Interp
  /\ UNCHANGED Quiet

Next ==
  \/ \E line \in CapabilityLines \cup OptionLines \cup OtherLines \cup {<<"clear">>} :
       InputLine(line)
  \/ Quit
  \/ Send
  \/ Resolve
  \/ LoadEnv
  \/ Build
  \/ ParseCheck
  \/ RscriptHangs
  \/ FindScript
  \/ Truncate
  \/ BusyPrecheck
  \/ RpcSend
  \/ PollCheck
  \/ PollDeadline
  \/ FinalCheck
  \/ Interrupt
  \/ Finally
  \/ ReplFinally
  \/ RemoteWrite

Spec == Init /\ [][Next]_vars

(***************************************************************************)
(* The synthesized fragment run by the remote interpreter.  The fragment   *)
(* is the one build_r_code produces for a validated request; the user's    *)
(* statements (Append, Modify) may bind or remove a global or raise, the   *)
(* user's expressions (Result, Export, Create) may raise.                  *)
(***************************************************************************)

\* Number of Modify snippets a request may hold
MaxModifies == 2

AppendText == <<"x">>
ModifyText == <<"rm", "(", "x", ")">>
CreateSpecA == <<"a", ":", "=", "1">>
CreateSpecB == <<"b", ":", "=", "2">>

\* The capability sets of the requests whose fragment is run
FragRequests ==
  {st \in
     {[NewState EXCEPT
         !.append_code_snippets = ap,
         !.result_expr = re,
         !.state_export_expr = ex,
         !.create_global_specs = cr,
         !.modify_global_snippets = [i \in 1..k |-> ModifyText],
         !.benchmark_mode = bm,
         !.benchmark_unit = IF bm THEN <<"ms">> ELSE <<"seconds">>,
         !.capture_output = co] :
       ap \in {<< >>, <<AppendText>>},
       re \in {<< >>, <<"x">>},
       ex \in {<< >>, <<"y">>},
       cr \in {<< >>, <<CreateSpecA>>, <<CreateSpecA, CreateSpecB>>},
       k \in 0..MaxModifies,
       bm \in BOOLEAN,
       co \in BOOLEAN} :
     validate_state_for_send(st) /\ ~BuildRaises(st)}

FragInit ==
  /\ state \in FragRequests
  /\ pc = "remote"
  /\ nlines = 0
  /\ nsend = 1
  /\ ctx = SendContextOf(state, 1)
  /\ steps = << >>
  /\ exc = "none"
  /\ success = FALSE
  /\ r_code = build_r_code(state, ctx)
  /\ session_dir = "s1"
  /\ busy_read = << >>
  /\ rc = 0
  /\ transport = NoTransport
  /\ polls = 0
  /\ files = [p \in Paths |-> NoFile]
  /\ remote = {}
  /\ emitted = << >>
  /\ diagnosed = 0
  /\ sessions = NoSession
  /\ procs = ProcessTable
  /\ osenv = CHOOSE e \in EnvChoices : TRUE
  /\ osenv0 = osenv
  /\ diag = NoDiag
  /\ report = "none"
  /\ fip = 1
  /\ g_env \in [GNames -> {"absent", "old"}]
  /\ codex_before = {}
  /\ codex_after = {}
  /\ codex_exec_error = "null"
  /\ codex_exec_result = "null"
  /\ codex_result_expr = "unset"
  /\ blockval = "null"
  /\ artifact = << >>
  /\ export_file = (state.state_export_expr # << >>)
  /\ raised = "none"
  /\ hist = {}

\* ls(envir = .GlobalEnv, all.names = TRUE)
ls(env) == {n \in GNames : env[n] # "absent"}

PosOp(op) == CHOOSE i \in 1..Len(r_code) : r_code[i].op = op

\* .codex_allowed_added (line 635)
codex_allowed_added ==
  {r_code[PosOp("allowed_added")].names[i] :
     i \in 1..Len(r_code[PosOp("allowed_added")].names)}

Running == pc = "remote" /\ raised = "none" /\ fip \in 1..Len(r_code)

Cur == r_code[fip]

\* The dispatch side is not involved while the fragment runs
UNCHANGED_Dispatch ==
  UNCHANGED <<state, pc, nlines, nsend, ctx, steps, exc, success, r_code,
              session_dir, busy_read, rc, transport, polls, files, remote, emitted,
              diagnosed, sessions, procs, osenv, report, osenv0, diag>>

\* What a statement of the user may do to .GlobalEnv
UserEffects ==
  {[kind |-> k, name |-> << >>] : k \in {"none", "raise"}}
  \cup {[kind |-> k, name |-> n] : k \in {"bind", "rm"}, n \in GNames}

ApplyEffect(env, e) ==
  CASE e.kind = "bind" -> [env EXCEPT ![e.name] = "user"]
    [] e.kind = "rm" -> [env EXCEPT ![e.name] = "absent"]
    [] OTHER -> env

\* .codex_before <- ls(...) (line 634)
ExecSnapshotBefore ==
  /\ Running /\ Cur.op = "snapshot_before"
  /\ codex_before' = ls(g_env)
  /\ fip' = fip + 1
  /\ UNCHANGED <<g_env, codex_after, codex_exec_error, codex_exec_result,
                 codex_result_expr, blockval, artifact, export_file, raised,
                 hist>>
  /\ UNCHANGED_Dispatch

\* Lines that set a local of the fragment or open a block
ExecPlain ==
  /\ Running
  /\ Cur.op \in {"allowed_added", "capture_output", "try_begin", "with_begin",
                 "bench_t0", "export_path", "export_rm"}
  /\ fip' = fip + 1
  /\ UNCHANGED <<g_env, codex_before, codex_after, codex_exec_error,
                 codex_exec_result, codex_result_expr, blockval, artifact,
                 export_file, raised, hist>>
  /\ UNCHANGED_Dispatch

\* An appended statement, inside with(new.env(parent = .GlobalEnv), ...)
ExecAppend ==
  /\ Running /\ Cur.op = "append"
  /\ \E e \in UserEffects, v \in {"null", "value"} :
       /\ g_env' = ApplyEffect(g_env, e)
       /\ IF e.kind = "raise"
            THEN /\ codex_exec_error' = "user"
                 /\ fip' = PosOp("try_end")
                 /\ blockval' = blockval
            ELSE /\ codex_exec_error' = codex_exec_error
                 /\ fip' = fip + 1
                 /\ blockval' = v
  /\ UNCHANGED <<codex_before, codex_after, codex_exec_result,
                 codex_result_expr, artifact, export_file, raised, hist>>
  /\ UNCHANGED_Dispatch

\* .codex_result_expr <- tryCatch(..., error = function(e) e) (lines 585-598)
ExecResult ==
  /\ Running /\ Cur.op \in {"result", "bench_result"}
  /\ \E v \in {"value", "null", "error"} :
       /\ Cur.op = "bench_result" => v # "null"
       /\ codex_result_expr' = v
       /\ blockval' = v
  /\ fip' = fip + 1
  /\ UNCHANGED <<g_env, codex_before, codex_after, codex_exec_error,
                 codex_exec_result, artifact, export_file, raised, hist>>
  /\ UNCHANGED_Dispatch

\* if (!inherits(.codex_result_expr, "error")) ... * 1000 (lines 592-593);
\* an if without else whose condition is FALSE has the value NULL.
ExecBenchMs ==
  /\ Running /\ Cur.op = "bench_ms"
  /\ blockval' = IF codex_result_expr # "error" THEN "value" ELSE "null"
  /\ fip' = fip + 1
  /\ UNCHANGED <<g_env, codex_before, codex_after, codex_exec_error,
                 codex_exec_result, codex_result_expr, artifact, export_file,
                 raised, hist>>
  /\ UNCHANGED_Dispatch

\* The export lines (lines 600-604)
ExecExport ==
  /\ Running
  /\ Cur.op \in {"export_eval", "export_save", "export_check", "export_result"}
  /\ \E fails \in BOOLEAN :
       LET stops == \/ Cur.op \in {"export_eval", "export_save"} /\ fails
                    \/ Cur.op = "export_check" /\ ~export_file
       IN /\ Cur.op \in {"export_check", "export_result"} => ~fails
          /\ codex_exec_error' = IF stops
                                   THEN (IF Cur.op = "export_check"
                                           THEN "export_missing" ELSE "user")
                                   ELSE codex_exec_error
          /\ fip' = IF stops THEN PosOp("try_end") ELSE fip + 1
          /\ codex_result_expr' = IF Cur.op = "export_result"
                                    THEN "value" ELSE codex_result_expr
          /\ blockval' = IF stops THEN blockval
                         ELSE IF Cur.op = "export_check" THEN "null"
                         ELSE "value"
  /\ UNCHANGED <<g_env, codex_before, codex_after, codex_exec_result,
                 artifact, export_file, raised, hist>>
  /\ UNCHANGED_Dispatch

\* .codex_exec_result <<- with(...) (lines 643-646)
ExecWithEnd ==
  /\ Running /\ Cur.op = "with_end"
  /\ codex_exec_result' = blockval
  /\ fip' = fip + 1
  /\ UNCHANGED <<g_env, codex_before, codex_after, codex_exec_error,
                 codex_result_expr, blockval, artifact, export_file, raised,
                 hist>>
  /\ UNCHANGED_Dispatch

\* Variant of the refusal test that never refuses.
CreateRefuses_Never(value) == FALSE

\* exists("<name>", envir = .GlobalEnv, inherits = FALSE) (line 614)
CreateRefuses(value) == value # "absent"

\* if (exists(...)) stop("CREATE_NEW_GLOBAL_VARIABLE refused ...") (line 614)
ExecCreateCheck ==
  /\ Running /\ Cur.op = "create_check"
  /\ hist' = hist \cup {[ev |-> "check", name |-> Cur.name, was |-> g_env[Cur.name]]}
  /\ IF CreateRefuses(g_env[Cur.name])
       THEN /\ codex_exec_error' = "refused"
            /\ fip' = PosOp("try_end")
       ELSE /\ codex_exec_error' = codex_exec_error
            /\ fip' = fip + 1
  /\ UNCHANGED <<g_env, codex_before, codex_after, codex_exec_result,
                 codex_result_expr, blockval, artifact, export_file, raised>>
  /\ UNCHANGED_Dispatch

\* <name> <- (<expr>), a local of .codex_run_core (line 616)
ExecCreateEval ==
  /\ Running /\ Cur.op = "create_eval"
  /\ \E fails \in BOOLEAN, v \in {"null", "value"} :
       /\ fails => v = "null"
       /\ codex_exec_error' = IF fails THEN "user" ELSE codex_exec_error
       /\ fip' = IF fails THEN PosOp("try_end") ELSE fip + 1
       /\ blockval' = IF fails THEN blockval ELSE v
  /\ UNCHANGED <<g_env, codex_before, codex_after, codex_exec_result,
                 codex_result_expr, artifact, export_file, raised,
                 hist>>
  /\ UNCHANGED_Dispatch

\* assign("<name>", <name>, envir = .GlobalEnv) (line 617); its value is
\* the value assigned.
ExecCreateAssign ==
  /\ Running /\ Cur.op = "create_assign"
  /\ hist' = hist \cup {[ev |-> "bind", name |-> Cur.name, was |-> g_env[Cur.name]]}
  /\ g_env' = [g_env EXCEPT ![Cur.name] = "created"]
  /\ fip' = fip + 1
  /\ UNCHANGED <<codex_before, codex_after, codex_exec_error,
                 codex_exec_result, codex_result_expr, blockval, artifact,
                 export_file, raised>>
  /\ UNCHANGED_Dispatch

\* eval(parse(text = "<snippet>"), envir = .GlobalEnv) (line 621)
ExecModify ==
  /\ Running /\ Cur.op = "modify"
  /\ \E e \in UserEffects, v \in {"null", "value"} :
       /\ e.kind = "raise" => v = "null"
       /\ g_env' = ApplyEffect(g_env, e)
       /\ codex_exec_error' = IF e.kind = "raise" THEN "user" ELSE codex_exec_error
       /\ fip' = IF e.kind = "raise" THEN PosOp("try_end") ELSE fip + 1
       /\ blockval' = IF e.kind = "raise" THEN blockval ELSE v
  /\ UNCHANGED <<codex_before, codex_after, codex_exec_result,
                 codex_result_expr, artifact, export_file, raised,
                 hist>>
  /\ UNCHANGED_Dispatch

\* The value of tryCatch({ ... }, error = function(e) e) (lines 653-669):
\* the trapped condition when the block raised; otherwise the value of the
\* block, which is the captured output (a character vector, never NULL)
\* when .codex_capture_output is TRUE and else the value .codex_run_core()
\* returned, that of the last statement it ran.
tryCatch_value(trapped, capture_output, last) ==
  IF trapped # "null" THEN trapped
  ELSE IF capture_output THEN "value"
  ELSE last

\* .codex_exec_error <- tryCatch({ ... }, error = function(e) e) (line 653)
ExecTryEnd ==
  /\ Running /\ Cur.op = "try_end"
  /\ codex_exec_error' =
       tryCatch_value(codex_exec_error, state.capture_output, blockval)
  /\ fip' = fip + 1
  /\ UNCHANGED <<g_env, codex_before, codex_after, codex_exec_result,
                 codex_result_expr, blockval, artifact, export_file, raised,
                 hist>>
  /\ UNCHANGED_Dispatch

\* Variant in which the value branch does not look at .codex_exec_error.
WriteFires_ValueIgnoresError(op, exec_error, exec_result) ==
  CASE op = "write_exec_error" -> exec_error # "null"
    [] op = "write_no_result" -> exec_error = "null" /\ exec_result = "null"
    [] op = "write_result_error" -> exec_error = "null" /\ exec_result = "error"
    [] op = "write_value" -> exec_result # "error" /\ exec_result # "null"
    [] OTHER -> FALSE

\* The condition of each serialization branch (lines 672, 680, 688, 696)
WriteFires(op, exec_error, exec_result) ==
  CASE op = "write_exec_error" -> exec_error # "null"
    [] op = "write_no_result" -> exec_error = "null" /\ exec_result = "null"
    [] op = "write_result_error" -> exec_error = "null" /\ exec_result = "error"
    [] op = "write_value" ->
         exec_error = "null" /\ exec_result # "error" /\ exec_result # "null"
    [] OTHER -> FALSE

\* One serialization branch (lines 671-703)
ExecWrite ==
  /\ Running /\ Cur.op \in WriteOps
  /\ artifact' = IF WriteFires(Cur.op, codex_exec_error, codex_exec_result)
                   THEN Append(artifact, Cur.op) ELSE artifact
  /\ fip' = fip + 1
  /\ UNCHANGED <<g_env, codex_before, codex_after, codex_exec_error,
                 codex_exec_result, codex_result_expr, blockval, export_file,
                 raised, hist>>
  /\ UNCHANGED_Dispatch

\* if (!is.null(.codex_exec_error)) stop(...) (lines 705-707)
ExecReraise ==
  /\ Running /\ Cur.op = "reraise"
  /\ IF codex_exec_error # "null"
       THEN raised' = "exec_error" /\ fip' = fip
       ELSE raised' = raised /\ fip' = fip + 1
  /\ UNCHANGED <<g_env, codex_before, codex_after, codex_exec_error,
                 codex_exec_result, codex_result_expr, blockval, artifact,
                 export_file, hist>>
  /\ UNCHANGED_Dispatch

\* .codex_after <- ls(...) (line 708)
ExecSnapshotAfter ==
  /\ Running /\ Cur.op = "snapshot_after"
  /\ codex_after' = ls(g_env)
  /\ fip' = fip + 1
  /\ UNCHANGED <<g_env, codex_before, codex_exec_error, codex_exec_result,
                 codex_result_expr, blockval, artifact, export_file, raised,
                 hist>>
  /\ UNCHANGED_Dispatch

\* Variant of the leak test that looks at additions only.
LeakDetected_AdditionsOnly(before, after, allowed) ==
  ((after \ before) \ allowed) # {}

\* .codex_unexpected_new / .codex_unexpected_removed (lines 709-713)
LeakDetected(before, after, allowed) ==
  \/ ((after \ before) \ allowed) # {}
  \/ ((before \ after) \ {}) # {}

\* if (...) stop("Global environment leak detected") (lines 713-715)
ExecLeakCheck ==
  /\ Running /\ Cur.op = "leak_check"
  /\ IF LeakDetected(codex_before, codex_after, codex_allowed_added)
       THEN raised' = "leak" /\ fip' = fip
       ELSE raised' = raised /\ fip' = fip + 1
  /\ UNCHANGED <<g_env, codex_before, codex_after, codex_exec_error,
                 codex_exec_result, codex_result_expr, blockval, artifact,
                 export_file, hist>>
  /\ UNCHANGED_Dispatch

FragNext ==
  \/ ExecSnapshotBefore
  \/ ExecPlain
  \/ ExecAppend
  \/ ExecResult
  \/ ExecBenchMs
  \/ ExecExport
  \/ ExecWithEnd
  \/ ExecCreateCheck
  \/ ExecCreateEval
  \/ ExecCreateAssign
  \/ ExecModify
  \/ ExecTryEnd
  \/ ExecWrite
  \/ ExecReraise
  \/ ExecSnapshotAfter
  \/ ExecLeakCheck

FragSpec == FragInit /\ [][FragNext]_vars

(***************************************************************************)
(* Session resolution, environment loading and timeout diagnosis on their  *)
(* own: the part of a dispatch that reads the session directories, the     *)
(* process table and os.environ (send_current_state lines 766-767, 824-826,*)
(* and the timeout branch of the low-level script), over every layout of   *)
(* two candidate directories.                                              *)
(***************************************************************************)

\* re.fullmatch(r"\d+", pid)
IsPidDigits(pid) == pid \in {"100", "110", "200", "300"}

\* pid_state of diagnose_result_wait_timeout (lines 340-348)
diag_pid_state(pid_value, pt) ==
  IF pid_value = "" THEN "<missing>"
  ELSE IF session_pid_is_alive(pid_value, pt) THEN "alive"
  ELSE IF IsPidDigits(pid_value) THEN "dead_or_not_rsession"
  ELSE "invalid"

CauseTags ==
  {"compute_still_running", "handoff_or_write_delay", "output_path_unavailable",
   "session_liveness_issue", "unknown"}

\* The causes other than "unknown" (lines 356-363)
specific_causes(executing_value, out_exists, out_size, ps, abend_value) ==
  {t \in CauseTags :
     \/ t = "compute_still_running" /\ executing_value = "1"
     \/ t = "handoff_or_write_delay"
          /\ out_exists /\ out_size = 0 /\ executing_value # "1"
     \/ t = "output_path_unavailable" /\ ~out_exists
     \/ t = "session_liveness_issue"
          /\ (ps \in {"dead_or_not_rsession", "invalid"} \/ abend_value = "1")}

\* Variant that leaves the causes empty when none applies.
diagnose_causes_NoUnknown(executing_value, out_exists, out_size, ps, abend_value) ==
  specific_causes(executing_value, out_exists, out_size, ps, abend_value)

\* causes of diagnose_result_wait_timeout (lines 355-365)
diagnose_causes(executing_value, out_exists, out_size, ps, abend_value) ==
  LET c == specific_causes(executing_value, out_exists, out_size, ps, abend_value)
  IN IF c = {} THEN {"unknown"} ELSE c

\* The tags for which diagnose_result_wait_timeout prints its
\* "cause / Action" pair (lines 374-385).
diagnose_hints(executing_value, out_exists, out_size, ps, abend_value) ==
  specific_causes(executing_value, out_exists, out_size, ps, abend_value)

\* session_pid_state of the low-level script (lines 103-107): ps -p alone
session_pid_state(pid, pt) ==
  IF pid = "" \/ ~IsPidDigits(pid) THEN "unknown"
  ELSE IF pt[pid] # "dead" THEN "alive" ELSE "dead"

\* What a candidate directory may hold.
ProbeDirContents ==
  {[snap |-> sn, env |-> FALSE, pid |-> "", stream |-> "", token |-> ""] :
     sn \in BOOLEAN}
  \cup {[snap |-> sn, env |-> TRUE, pid |-> p, stream |-> "st" \o p,
         token |-> "tk" \o p] : sn \in BOOLEAN, p \in {"100", "110", "200"}}

\* Every layout of the two candidate directories, either one the newer.
ProbeLayouts ==
  {[d \in Dirs |->
      [snap |-> c[d].snap, env |-> c[d].env, pid |-> c[d].pid,
       stream |-> c[d].stream, token |-> c[d].token,
       mtime |-> IF d = newest THEN 2 ELSE 1]] :
     c \in [Dirs -> ProbeDirContents], newest \in Dirs}

\* os.environ at the start of the tool: RSTUDIO_SESSION_PID unset, a live
\* rsession, a live process of another kind, a dead process, not a number.
ProbeEnvs ==
  {[pid |-> "", stream |-> "", token |-> ""]}
  \cup {[pid |-> p, stream |-> "live", token |-> "livetk"] :
          p \in {"100", "200", "300", "x"}}

\* The session-dir option lines, the empty one included.
ProbeLines ==
  {<<"session", "-", "dir", ":", "s1">>, <<"session", "-", "dir", ":", "s2">>,
   <<"session", "-", "dir", ":">>}

ProbeInit ==
  /\ state = NewState
  /\ pc = "probe"
  /\ nlines = 0
  /\ nsend = 0
  /\ ctx = NoCtx
  /\ steps = << >>
  /\ exc = "none"
  /\ success = FALSE
  /\ r_code = << >>
  /\ session_dir = ""
  /\ busy_read = << >>
  /\ rc = 0
  /\ transport = NoTransport
  /\ polls = 0
  /\ files = [p \in Paths |-> NoFile]
  /\ remote = {}
  /\ emitted = << >>
  /\ diagnosed = 0
  /\ sessions \in ProbeLayouts
  /\ procs = ProcessTable
  /\ osenv \in ProbeEnvs
  /\ osenv0 = osenv
  /\ diag = NoDiag
  /\ report = "none"
  /\ InterpIdle

ProbeFrame ==
  UNCHANGED <<nlines, ctx, steps, exc, success, r_code, busy_read, rc, transport,
              polls, files, remote, emitted, diagnosed, sessions, procs, osenv0,
              report>>

\* A session-dir line read at the prompt (lines 936-937).
ProbeOption(line) ==
  /\ pc = "probe"
  /\ nsend < MaxProbes
  /\ apply_input_line(state, line).ok
  /\ state' = apply_input_line(state, line).st
  /\ state' # state
  /\ UNCHANGED <<pc, nsend, session_dir, osenv, diag>>
  /\ ProbeFrame
  /\ UNCHANGED Interp

\* A dispatch starts.
ProbeSend ==
  /\ pc = "probe"
  /\ nsend < MaxProbes
  /\ nsend' = nsend + 1
  /\ pc' = "probe_resolve"
  /\ session_dir' = ""
  /\ UNCHANGED <<state, osenv, diag>>
  /\ ProbeFrame
  /\ UNCHANGED Interp

\* resolve_session_dir (line 766); a SendError ends the dispatch.
ProbeResolve ==
  /\ pc = "probe_resolve"
  /\ session_dir' = resolve_session_dir(state, sessions, osenv, procs)
  /\ pc' = IF session_dir' = "" THEN "probe" ELSE "probe_loadenv"
  /\ UNCHANGED <<state, nsend, osenv, diag>>
  /\ ProbeFrame
  /\ UNCHANGED Interp

\* load_session_environment (line 767)
ProbeLoadEnv ==
  /\ pc = "probe_loadenv"
  /\ osenv' = load_session_environment(osenv, session_dir, sessions, procs)
  /\ pc' = "probe_sent"
  /\ UNCHANGED <<state, nsend, session_dir, diag>>
  /\ ProbeFrame
  /\ UNCHANGED Interp

\* The transport call times out: the low-level script prints the session
\* metadata (low-level lines 191-200).
ProbeTransportTimeout ==
  /\ pc = "probe_sent"
  /\ diag' = [NoDiag EXCEPT
               !.meta_pid_state =
                  session_pid_state(sessions[session_dir].pid, procs)]
  /\ pc' = "probe_reported"
  /\ UNCHANGED <<state, nsend, session_dir, osenv>>
  /\ ProbeFrame
  /\ UNCHANGED Interp

\* The result wait times out: diagnose_result_wait_timeout on what it
\* finds (lines 335-385).
ProbeDiagnose ==
  /\ pc = "probe_sent"
  /\ \E executing_value \in {"<missing>", "0", "1"},
        out \in {[exists |-> FALSE, size |-> 0], [exists |-> TRUE, size |-> 0],
                 [exists |-> TRUE, size |-> 1]},
        abend_value \in {"<missing>", "0", "1"} :
       LET ps == diag_pid_state(osenv.pid, procs) IN
         diag' = [ran |-> TRUE,
                  causes |-> diagnose_causes(executing_value, out.exists,
                                             out.size, ps, abend_value),
                  hints |-> diagnose_hints(executing_value, out.exists,
                                           out.size, ps, abend_value),
                  pid_state |-> ps,
                  meta_pid_state |-> "none",
                  executing |-> executing_value,
                  out |-> out,
                  abend |-> abend_value]
  /\ pc' = "probe_reported"
  /\ UNCHANGED <<state, nsend, session_dir, osenv>>
  /\ ProbeFrame
  /\ UNCHANGED Interp

\* The dispatch ends, with or without a timeout.
ProbeReturn ==
  /\ pc \in {"probe_sent", "probe_reported"}
  /\ pc' = "probe"
  /\ diag' = NoDiag
  /\ UNCHANGED <<state, nsend, session_dir, osenv>>
  /\ ProbeFrame
  /\ UNCHANGED Interp

ProbeNext ==
  \/ \E line \in ProbeLines : ProbeOption(line)
  \/ ProbeSend
  \/ ProbeResolve
  \/ ProbeLoadEnv
  \/ ProbeTransportTimeout
  \/ ProbeDiagnose
  \/ ProbeReturn

ProbeSpec == ProbeInit /\ [][ProbeNext]_vars

-----------------------------------------------------------------------------
\* Properties of the dispatch

HasStep(n) == \E i \in 1..Len(steps) : steps[i].name = n

Pos(n) == IF HasStep(n) THEN CHOOSE i \in 1..Len(steps) : steps[i].name = n ELSE 0

HasResult == state.result_expr # << >>
HasExport == state.state_export_expr # << >>
HasCreate == state.create_global_specs # << >>
HasModify == state.modify_global_snippets # << >>
HasAppend == state.append_code_snippets # << >>

NoPending ==
  /\ state.append_code_snippets = << >>
  /\ state.result_expr = << >>
  /\ state.state_export_expr = << >>
  /\ state.create_global_specs = << >>
  /\ state.modify_global_snippets = << >>
  /\ ~state.benchmark_mode

\* C1: when a send has ended, with success, with a validation error, with a
\* dispatch error or with an interrupt, the State holds no pending capability:
\* no Append, Result, Export, Create or Modify and no benchmark request.
C1_ClearedAfterEverySend == report # "none" => NoPending

\* A send that passed validation, hence held a capability, failed later and
\* the loop is back at its prompt.
C1_Witness == report = "SendError" /\ pc = "prompt" /\ NoPending

\* C2: the transport call is made only after validation, session resolution,
\* synthesis, the parse check and the busy precheck have each succeeded, in
\* this order; when one of them fails no transport call is made.
C2_TransportAfterChecks ==
  /\ HasStep("rpc") =>
       /\ 0 < Pos("validate")
       /\ Pos("validate") < Pos("resolve")
       /\ Pos("resolve") < Pos("build")
       /\ Pos("build") < Pos("parse")
       /\ Pos("parse") < Pos("busy")
       /\ Pos("busy") < Pos("rpc")
       /\ \A j \in 1..(Pos("rpc") - 1) : steps[j].ok
  /\ \A j \in 1..Len(steps) :
       (steps[j].name \in {"validate", "resolve", "build", "parse", "busy"}
          /\ ~steps[j].ok) => ~HasStep("rpc") /\ pc # "rpc"

\* The transport call has been made.
C2_Witness == HasStep("rpc") /\ Len(steps) >= 9

\* C6: a request that holds an Export together with a Result, a Create or a
\* Modify is rejected by validation: nothing is synthesized and no later step
\* of the dispatch runs.
C6_ExportExclusive ==
  (steps # << >> /\ HasExport /\ (HasResult \/ HasCreate \/ HasModify)) =>
    /\ Len(steps) = 1
    /\ ~steps[1].ok
    /\ exc = "ValidationError"
    /\ r_code = << >>

\* An Export combined with a Create has been sent and rejected.
C6_Witness ==
  /\ steps # << >>
  /\ HasExport /\ HasCreate
  /\ exc = "ValidationError"

C8_BusyBlocksTransport ==
  /\ (HasStep("rpc") \/ pc = "rpc") => busy_read # <<"1">>
  /\ (HasStep("busy") /\ busy_read = <<"1">>) =>
       /\ exc \in {"SendError", "KeyboardInterrupt"}
       /\ ~success

\* The flag read 1 and the dispatch is in its finally clause.
C8_Witness ==
  /\ HasStep("busy") /\ busy_read = <<"1">>
  /\ pc = "finally" /\ exc = "SendError"

\* C9: the poll loop is entered exactly when the transport call was accepted
\* and the request holds a Result or an Export; it is never entered for an
\* append-only request or for a request of Creates and Modifies only.
C9_PollIffAcceptedAndExpected ==
  /\ HasStep("poll") <=> (HasStep("rpc") /\ rc = 0 /\ (HasResult \/ HasExport))
  /\ pc \in {"poll", "final"} => HasStep("poll")
  /\ HasStep("poll") => ~ctx.append_only

\* The poll loop was entered after an accepted transport call.
C9_Witness == HasStep("poll") /\ HasStep("wait") /\ rc = 0

\* C10: the synthesized fragment contains a write of the result artifact
\* exactly when the request holds a Result or an Export; the fragment of an
\* append-only request contains none.
C10_WriteIffResultOrExport ==
  r_code # << >> =>
    /\ HasOp(r_code, WriteOps) <=> (HasResult \/ HasExport)
    /\ (HasAppend /\ ~HasResult /\ ~HasExport /\ ~HasCreate /\ ~HasModify)
         => ~HasOp(r_code, WriteOps)

\* The fragment of an append-only request has been synthesized.
C10_Witness ==
  /\ r_code # << >>
  /\ HasAppend /\ ~HasResult /\ ~HasExport /\ ~HasCreate /\ ~HasModify
  /\ ~HasOp(r_code, WriteOps)

-----------------------------------------------------------------------------
\* Properties of the fragment

\* The fragment has ended, normally or with an error.
Ended == pc = "remote" /\ (raised # "none" \/ fip > Len(r_code))

BeforeTaken == pc = "remote" /\ fip > PosOp("snapshot_before")

AfterTaken == pc = "remote" /\ fip > PosOp("snapshot_after")

\* A top-level error was trapped by the try block.
Trapped == codex_exec_error \in {"user", "refused", "export_missing"}

\* What the run has added to and removed from the global namespace
RunAdded == ls(g_env) \ codex_before

RunRemoved == codex_before \ ls(g_env)

\* C3 in the runs in which the body raised no error: a run that adds exactly
\* the declared Create names and removes nothing never ends with the leak
\* error, and a run that adds a name that is not a declared Create name
\* always ends with the leak error.
C3_LeakIffUndeclaredAddition ==
  (Ended /\ ~Trapped) =>
    /\ (RunAdded = codex_allowed_added /\ RunRemoved = {}) => raised # "leak"
    /\ ~(RunAdded \subseteq codex_allowed_added) => raised = "leak"

\* C4: when a name of the 'before' snapshot is missing from the 'after'
\* snapshot the fragment ends with the leak error, whether or not Creates
\* were declared and also when a Modify snippet removed the name.
C4_RemovalIsLeak ==
  (AfterTaken /\ Ended /\ (codex_before \ codex_after) # {}) => raised = "leak"

\* A request of a Create and Modify snippets, without Append: the Create was
\* bound, a Modify snippet removed an older name, the run ended with the leak
\* error.
C4_Witness ==
  /\ AfterTaken /\ Ended
  /\ state.append_code_snippets = << >>
  /\ state.modify_global_snippets # << >>
  /\ codex_allowed_added # {}
  /\ (codex_after \ codex_before) = codex_allowed_added
  /\ (codex_before \ codex_after) # {}
  /\ raised = "leak"

\* C5: a Create line never binds a name that exists when its turn comes: the
\* fragment traps an 'already exists' refusal, runs no later line of the
\* body, the binding keeps the value it had, and a request of Creates only
\* writes no artifact.
C5_CreateNeverOverwrites ==
  pc = "remote" =>
    /\ \A e \in hist : e.ev = "bind" => e.was = "absent"
    /\ \A e \in hist :
         (e.ev = "check" /\ e.was # "absent") =>
           /\ codex_exec_error = "refused"
           /\ g_env[e.name] = e.was
           /\ ~\E b \in hist : b.ev = "bind" /\ b.name = e.name
           /\ fip >= PosOp("try_end")
    /\ (state.append_code_snippets = << >> /\ state.result_expr = << >>
          /\ state.state_export_expr = << >>
          /\ state.modify_global_snippets = << >>) => artifact = << >>

\* A request of one Create whose name was already bound has ended with the
\* refusal, the old binding in place and no artifact written.
C5_Witness ==
  /\ Ended
  /\ Len(state.create_global_specs) = 1
  /\ state.append_code_snippets = << >> /\ state.modify_global_snippets = << >>
  /\ [ev |-> "check", name |-> <<"a">>, was |-> "old"] \in hist
  /\ g_env[<<"a">>] = "old"
  /\ codex_exec_error = "refused" /\ raised = "exec_error"
  /\ artifact = << >>

-----------------------------------------------------------------------------
\* The fragment is past its serialization branches, or has none.
PastWrites == pc = "remote" /\ fip > PosOp("try_end") + Len(WriteInstrs(ctx))

\* The leak check has been reached.
LeakCheckRan ==
  pc = "remote" /\ (fip > PosOp("snapshot_after") \/ raised = "leak")

\* C33: when a result is expected, a fragment that is past its four
\* serialization branches has written the artifact exactly once, whatever
\* was trapped and whatever the body yielded; a trapped top-level error is
\* written by the error branch; the write precedes the re-raise; the leak
\* check is reached only when no top-level error was trapped.
C33_ExactlyOneWrite ==
  /\ (PastWrites /\ ctx.expect_result) => Len(artifact) = 1
  /\ (PastWrites /\ ctx.expect_result /\ Trapped) =>
       artifact = <<"write_exec_error">>
  /\ (pc = "remote" /\ raised = "exec_error" /\ ctx.expect_result) =>
       Len(artifact) = 1
  /\ (pc = "remote" /\ ~ctx.expect_result) => artifact = << >>
  /\ LeakCheckRan => ~Trapped

\* A request with a Result and a Modify: the Result yielded a value, the
\* Modify raised, and the fragment wrote the error once and re-raised it.
C33_Witness ==
  /\ Ended
  /\ ctx.expect_result
  /\ codex_exec_result = "value"
  /\ Trapped
  /\ artifact = <<"write_exec_error">>
  /\ raised = "exec_error"

-----------------------------------------------------------------------------

\* Properties of the transport call

\* The transport call of this dispatch has been made.
Called == HasStep("rpc")

\* The transport call ended with status 124 or 137: rpostback did, or the
\* low-level script was killed by the wrapper of run_rpc_send.
ExitedAsTimeout == transport.killed # 0 \/ transport.rpc_rc \in {124, 137}

\* C11: when the transport call ends with status 124 or 137 the call is
\* classified as timed out and the dispatch fails; the poll loop is not
\* entered and the timeout diagnoser does not run.
C11_TimeoutStopsDispatch ==
  (Called /\ ExitedAsTimeout) =>
    /\ transport.class = "TimedOut"
    /\ rc # 0
    /\ exc \in {"SendError", "KeyboardInterrupt"}
    /\ ~success
    /\ ~HasStep("poll") /\ ~HasStep("wait") /\ ~HasStep("final")
    /\ pc \notin {"poll", "final"}
    /\ diagnosed = 0

\* rpostback ended with status 137 although its output held the "result"
\* marker, for a request that expects a result.
C11_Witness ==
  /\ Called /\ transport.killed = 0 /\ transport.rpc_rc = 137
  /\ transport.has_result /\ ~transport.has_error
  /\ ctx.expect_result
  /\ pc = "finally" /\ exc = "SendError"

\* C12: the class of a transport call is decided by the exit status and the
\* markers in this order: TimedOut for status 124 or 137, else ProtocolError
\* when the output holds the "error" marker, else Accepted when it holds the
\* "result" marker, else Indeterminate; both markers give ProtocolError, and
\* the dispatch goes on exactly when the class is Accepted.
C12_ClassificationPrecedence ==
  (Called /\ transport.killed = 0) =>
    /\ transport.class \in {"TimedOut", "ProtocolError", "Accepted", "Indeterminate"}
    /\ transport.class = "TimedOut" <=> transport.rpc_rc \in {124, 137}
    /\ transport.class = "ProtocolError" <=>
         (transport.rpc_rc \notin {124, 137} /\ transport.has_error)
    /\ transport.class = "Accepted" <=>
         (transport.rpc_rc \notin {124, 137} /\ ~transport.has_error
            /\ transport.has_result)
    /\ transport.class = "Indeterminate" <=>
         (transport.rpc_rc \notin {124, 137} /\ ~transport.has_error
            /\ ~transport.has_result)
    /\ (transport.has_error /\ transport.has_result
          /\ transport.rpc_rc \notin {124, 137}) => transport.class = "ProtocolError"
    /\ rc = 0 <=> transport.class = "Accepted"
    /\ transport.class # "Accepted" =>
         (exc \in {"SendError", "KeyboardInterrupt"} /\ ~success
            /\ ~HasStep("poll"))

\* rpostback ended with status 0 and its output held both markers.
C12_Witness ==
  /\ Called /\ transport.killed = 0 /\ transport.rpc_rc = 0
  /\ transport.has_error /\ transport.has_result
  /\ transport.class = "ProtocolError"
  /\ pc = "finally" /\ exc = "SendError"

\* C13: a transport call in which rpostback ended with a status other than 0
\* is never accepted: whatever the output, the dispatch fails and the poll
\* loop is not entered.
C13_NonZeroExitNeverAccepted ==
  (Called /\ transport.killed = 0 /\ transport.rpc_rc # 0) =>
    /\ transport.class # "Accepted"
    /\ rc # 0
    /\ ~HasStep("poll")

-----------------------------------------------------------------------------
\* Properties of the wait for the result artifact

\* C14: a dispatch of a request with a Result or an Export that ends in
\* success has read the non-empty result artifact and emitted its contents
\* exactly once, for every accepted wait timeout (0 included) and whenever
\* the remote side writes the artifact.
C14_SuccessHasEmitted ==
  (success /\ ctx.expect_result) =>
    /\ Len(emitted) = 1
    /\ NonEmpty(emitted[1])

-----------------------------------------------------------------------------
\* Properties of the end of a dispatch

\* A dispatch is under way.
InDispatch == pc \notin {"prompt", "exited", "remote"}

\* A step of the dispatch itself, as opposed to the caller and the remote side
DispatchStep ==
  \/ Resolve \/ LoadEnv \/ Build \/ ParseCheck \/ FindScript \/ Truncate
  \/ BusyPrecheck \/ RpcSend \/ PollCheck \/ PollDeadline \/ FinalCheck
  \/ Finally \/ ReplFinally

\* C15: every dispatch ends with exactly one outcome (success with artifact,
\* success without artifact, or a typed failure) and no step of a dispatch
\* blocks forever: wherever the dispatch stands, its next step can be taken.
C15_EveryDispatchTerminates ==
  /\ InDispatch => ENABLED DispatchStep
  /\ pc = "repl_finally" =>
       \/ success /\ exc = "none" /\ ctx.expect_result
       \/ success /\ exc = "none" /\ ~ctx.expect_result
       \/ ~success /\ exc \in {"ValidationError", "SendError", "KeyboardInterrupt"}

\* The check after the poll loop found the artifact absent or empty.
WaitTimedOut == \E i \in 1..Len(steps) : steps[i].name = "final" /\ ~steps[i].ok

\* C16: when the transport call was accepted and the check after the poll
\* deadline finds the artifact absent or empty, the dispatch fails with the
\* result timeout and the timeout diagnoser has run exactly once; the
\* diagnoser runs in no other situation.
C16_DiagnoserOnResultTimeoutOnly ==
  /\ WaitTimedOut =>
       /\ diagnosed = 1
       /\ exc = "SendError" /\ ~success
       /\ transport.class = "Accepted" /\ HasStep("poll")
  /\ diagnosed > 0 => (diagnosed = 1 /\ WaitTimedOut)

\* An accepted request whose artifact stayed empty has failed, diagnosed once.
C16_Witness ==
  /\ WaitTimedOut /\ diagnosed = 1
  /\ files[ctx.out_path] = EmptyFile
  /\ pc = "finally" /\ exc = "SendError"

\* This step is the return of send_current_state through its finally clause.
Returns == pc = "finally" /\ pc' = "repl_finally"

\* This step is a send refused by validate_state_for_send, which raises
\* before any temporary file is made.
Refused == pc = "prompt" /\ pc' = "repl_finally"

Interrupted == exc = "KeyboardInterrupt"

\* C18: a dispatch interrupted by the caller after its temporary files were
\* made leaves send_current_state only through the finally clause, which
\* removes the temporary result file, and the tool exits only through the
\* finally clause of repl, which clears the pending capabilities.
C18_InterruptStillCleansUp ==
  [][/\ (Interrupted' /\ pc' = "repl_finally" /\ pc # "repl_finally") =>
          /\ pc = "finally"
          /\ ctx.is_temp_out_path => files'[ctx.out_path] = NoFile
     /\ (Interrupted /\ pc = "repl_finally" /\ pc' # pc) =>
          /\ pc' = "exited"
          /\ NoPending'
     /\ (Interrupted /\ pc' = "exited") => pc = "repl_finally"]_vars

\* The caller interrupted the poll wait of a dispatch with a generated
\* result file; the finally clause has removed the file.
C18_Witness ==
  /\ Interrupted /\ pc = "repl_finally"
  /\ HasStep("poll") /\ ~HasStep("final")
  /\ ctx.is_temp_out_path /\ files[ctx.out_path] = NoFile

\* The offline parse check of this dispatch has failed.
ParseFailed == \E i \in 1..Len(steps) : steps[i].name = "parse" /\ ~steps[i].ok

\* The file holds the __SYNTAX_ERROR__ payload of dispatch n.
HoldsMarker(f, n) == f.exists /\ f.kind = "syntax_error" /\ f.req = n

\* C19 as stated: after a failed parse check no transport call is made,
\* and when a result was expected the result artifact holds the
\* __SYNTAX_ERROR__ marker once the dispatch has returned, for a
\* caller-supplied path and for a generated temporary path alike.
C19_AsStated ==
  [][/\ ParseFailed' => ~Called'
     /\ (Returns /\ ParseFailed /\ ctx.expect_result) =>
          HoldsMarker(files'[ctx.out_path], nsend)]_vars

\* C19: after a failed parse check no transport call is made; when a
\* result was expected the parse check writes the __SYNTAX_ERROR__ marker into
\* the result artifact before it fails; on return the cleanup leaves a
\* caller-supplied path as it is and removes a generated temporary one.
C19_MarkerWrittenTempRemoved ==
  [][/\ ParseFailed' => ~Called'
     /\ (pc = "parse" /\ ParseFailed' /\ ctx.expect_result) =>
          HoldsMarker(files'[ctx.out_path], nsend)
     /\ (Returns /\ ParseFailed /\ ctx.expect_result) =>
          IF ctx.is_temp_out_path
            THEN files'[ctx.out_path] = NoFile
            ELSE files'[ctx.out_path] = files[ctx.out_path]]_vars

\* A dispatch with a caller-supplied output path has returned after a failed
\* parse check, and the path holds the marker.
C19_Witness ==
  /\ pc = "repl_finally" /\ ParseFailed /\ ~Called
  /\ ctx.expect_result /\ ~ctx.is_temp_out_path
  /\ HoldsMarker(files[ctx.out_path], nsend)

\* The session-dir option names a directory.
ExplicitDir == state.session_dir # << >>

ResolveFailed ==
  \E i \in 1..Len(steps) : steps[i].name = "resolve" /\ ~steps[i].ok

\* C20: with an explicit session directory, resolution returns exactly that
\* directory when it holds the snapshot file and fails otherwise; it never
\* returns another directory.
C20_ExplicitDirNoFallback ==
  (ExplicitDir /\ HasStep("resolve")) =>
    IF GivenHasSnapshot(state, sessions)
      THEN session_dir = state.session_dir[1] /\ ~ResolveFailed
      ELSE /\ session_dir = ""
           /\ ResolveFailed
           /\ exc = "SendError"
           /\ pc \in {"finally", "repl_finally"}

\* The given directory has no snapshot while another candidate has one; the
\* resolution has failed without taking the other.
C20_Witness ==
  /\ ExplicitDir /\ ResolveFailed
  /\ ~GivenHasSnapshot(state, sessions)
  /\ \E d \in Dirs : sessions[d].snap
  /\ session_dir = ""

-----------------------------------------------------------------------------
\* Properties of session resolution and of the timeout diagnosis

\* The most recently modified directory of a non-empty set S.
Newest(S) == CHOOSE d \in S : \A e \in S : sessions[e].mtime <= sessions[d].mtime

\* The directories whose environment file records the caller's process id.
RecordsHint == {d \in Dirs : sessions[d].env /\ sessions[d].pid = osenv.pid}

WithSnapshot == {d \in Dirs : sessions[d].snap}

HintAlive == session_pid_is_alive(osenv.pid, procs)

\* This step is resolve_session_dir with no explicit directory.
SearchStep == pc = "probe_resolve" /\ state.session_dir = << >>

\* C21 as stated: with a live hint, the newest candidate that records the
\* hint as its owner is returned; otherwise the newest candidate with a
\* snapshot; failure exactly when no candidate has a snapshot; the
\* directory returned has a snapshot.
C21_AsStated ==
  [][SearchStep =>
       /\ session_dir' =
            IF HintAlive /\ RecordsHint # {} THEN Newest(RecordsHint)
            ELSE IF WithSnapshot # {} THEN Newest(WithSnapshot)
            ELSE ""
       /\ session_dir' # "" => sessions[session_dir'].snap]_vars

\* C21: with a live hint, the newest candidate that has a snapshot and
\* records the hint as its owner is returned; when there is none, the
\* newest candidate with a snapshot; failure exactly when no candidate has
\* a snapshot; the directory returned has a snapshot.
C21_OwnerWithSnapshotElseNewest ==
  [][SearchStep =>
       /\ session_dir' =
            IF HintAlive /\ RecordsHint \cap WithSnapshot # {}
              THEN Newest(RecordsHint \cap WithSnapshot)
            ELSE IF WithSnapshot # {} THEN Newest(WithSnapshot)
            ELSE ""
       /\ session_dir' = "" <=> WithSnapshot = {}
       /\ session_dir' # "" => sessions[session_dir'].snap]_vars

\* The newest candidate records the live hint but has no snapshot; the
\* search has passed it by for the older candidate, which has one.
C21_Witness ==
  /\ pc = "probe_loadenv" /\ state.session_dir = << >>
  /\ HintAlive
  /\ Newest(Dirs) \in RecordsHint \ WithSnapshot
  /\ session_dir # Newest(Dirs)
  /\ session_dir \in WithSnapshot

\* The id names a live process that is not the server process.
LiveOtherKind(pid) == pid \in DOMAIN procs /\ procs[pid] = "other"

\* C22: a live process of another kind is never taken for the live
\* session: the search does not select a directory by its id, and neither
\* the timeout diagnoser nor the session metadata printed on a transport
\* timeout reports it alive.
C22_OtherProcessNeverAlive ==
  /\ (pc = "probe_loadenv" /\ state.session_dir = << >>
        /\ LiveOtherKind(osenv.pid)) =>
       session_dir = Newest(WithSnapshot)
  /\ (diag.ran /\ LiveOtherKind(osenv.pid)) => diag.pid_state # "alive"
  /\ (diag.meta_pid_state # "none" /\ LiveOtherKind(sessions[session_dir].pid)) =>
       diag.meta_pid_state # "alive"

\* What a dispatch of the current request resolves to when the tool has
\* just started: the directory, and os.environ after loading from it.
FreshDir == resolve_session_dir(state, sessions, osenv0, procs)

FreshEnv == load_session_environment(osenv0, FreshDir, sessions, procs)

\* C23: whatever dispatches ran earlier, a dispatch resolves to the
\* directory and to the session environment that the same dispatch gets
\* from a tool that has just started, the directories and the process
\* table being the same.
C23_ResolutionIndependentOfHistory ==
  /\ pc \in {"probe_loadenv", "probe_sent"} => session_dir = FreshDir
  /\ pc = "probe_sent" => osenv = FreshEnv

\* RSTUDIO_SESSION_PID names a dead process, a process that is not the
\* server, or is not a number.
OwnerNotLive ==
  /\ osenv.pid # ""
  /\ \/ osenv.pid \notin DOMAIN procs
     \/ procs[osenv.pid] \in {"dead", "other"}

\* C24: whatever the busy flag, the artifact, the owner process and the
\* abend marker are, the diagnoser emits a non-empty set of cause tags,
\* each tag present exactly under its condition, and "unknown" exactly
\* when no other tag is present.
C24_CauseTagsMatchConditions ==
  diag.ran =>
    /\ diag.causes # {} /\ diag.causes \subseteq CauseTags
    /\ "compute_still_running" \in diag.causes <=> diag.executing = "1"
    /\ "handoff_or_write_delay" \in diag.causes <=>
         (diag.out.exists /\ diag.out.size = 0 /\ diag.executing # "1")
    /\ "output_path_unavailable" \in diag.causes <=> ~diag.out.exists
    /\ "session_liveness_issue" \in diag.causes <=>
         (OwnerNotLive \/ diag.abend = "1")
    /\ "unknown" \in diag.causes <=> diag.causes \ {"unknown"} = {}

\* The diagnoser found a non-empty artifact, an idle session, no abend and
\* no owner process at fault: the only tag is "unknown".
C24_Witness ==
  /\ diag.ran /\ diag.causes = {"unknown"}
  /\ diag.out.exists /\ diag.out.size > 0

\* C25: the diagnoser prints a hint for every cause tag it emits,
\* "unknown" included, and for no other tag.
C25_OneHintPerTag ==
  diag.ran => diag.hints = diag.causes

(***************************************************************************)
(* The tool fed with the lines that probe the policy, started next to a    *)
(* live session.                                                           *)
(***************************************************************************)

PolicyInit ==
  /\ Init
  /\ osenv.pid # ""
  /\ \A d \in Dirs : sessions[d].snap

PolicyNext ==
  \/ \E line \in PolicyLines : InputLine(line)
  \/ Quit
  \/ Send
  \/ DispatchStep
  \/ RscriptHangs
  \/ Interrupt
  \/ RemoteWrite

PolicySpec == PolicyInit /\ [][PolicyNext]_vars

\* The prompt loop alone, fed with capability, option and control lines.
PromptLines ==
  CapabilityLines \cup OptionLines \cup OptionProbeLines \cup OtherLines
    \cup {<<"clear">>}

PromptNext == \E line \in PromptLines : InputLine(line)

PromptSpec == Init /\ [][PromptNext]_vars

\* The prompt after an earlier request, numbered 0, that was sent with a
\* caller-supplied output path and whose wait for the result ended before
\* its fragment wrote: 'out' is an option and stays in the State (lines
\* 42-59), the path was emptied and is not removed (lines 799-800, 830-834),
\* the fragment has still to write.
EarlierRequest == 0

KeptOutInit ==
  /\ state = [NewState EXCEPT !.out_path = UserOut]
  /\ pc = "prompt"
  /\ nlines = 0
  /\ nsend = 0
  /\ ctx = NoCtx
  /\ steps = << >>
  /\ exc = "none"
  /\ success = FALSE
  /\ r_code = << >>
  /\ session_dir = ""
  /\ busy_read = << >>
  /\ rc = 0
  /\ transport = NoTransport
  /\ polls = 0
  /\ files = [p \in Paths |-> IF p = UserOut THEN EmptyFile ELSE NoFile]
  /\ remote = {[req |-> EarlierRequest, path |-> UserOut]}
  /\ emitted = << >>
  /\ diagnosed = 0
  /\ sessions \in SessionLayouts
  /\ procs = ProcessTable
  /\ osenv \in EnvChoices
  /\ StartWorld(sessions, osenv)
  /\ osenv0 = osenv
  /\ diag = NoDiag
  /\ report = "SendError"
  /\ InterpIdle

KeptOutSpec == KeptOutInit /\ [][Next]_vars

-----------------------------------------------------------------------------
\* Properties of the policy validator

HasSingleArrow(code) ==
  ContainsSeq(code, <<"<", "-">>) \/ ContainsSeq(code, <<"-", ">">>)

HasDoubleArrow(code) ==
  ContainsSeq(code, <<"<", "<", "-">>) \/ ContainsSeq(code, <<"-", ">", ">">>)

\* The fragments held by the Request State.
Stored ==
  {state.append_code_snippets[i] : i \in 1..Len(state.append_code_snippets)}
  \cup {state.create_global_specs[i] : i \in 1..Len(state.create_global_specs)}
  \cup {state.modify_global_snippets[i] :
          i \in 1..Len(state.modify_global_snippets)}
  \cup ({state.result_expr, state.state_export_expr} \ {<< >>})

\* The fragments held by the Request State in a role that must be free of
\* assignment: Result, Export, Create.
StoredExpressions ==
  {state.create_global_specs[i] : i \in 1..Len(state.create_global_specs)}
  \cup ({state.result_expr, state.state_export_expr} \ {<< >>})

\* The role of a capability line.
Role(line) == trim(LinePrefix(line))

\* The lines whose fragment holds a left or right arrow.
ArrowLines == {line \in PolicyLines : HasSingleArrow(LinePayload(line))}

\* The lines whose fragment holds a double arrow, or an arrow in the role
\* Result, Export or Create.
ForbiddenArrowLines ==
  {line \in PolicyLines :
     \/ HasDoubleArrow(LinePayload(line))
     \/ /\ HasSingleArrow(LinePayload(line))
        /\ Role(line) \in {<<"result">>, <<"export">>, <<"create">>}}

\* C26 as stated: a line whose fragment holds a left or right arrow is
\* refused whatever its role, and the Request State never holds such a
\* fragment.
C26_AsStated ==
  [][/\ \A line \in ArrowLines : InputLine(line) => state' = state
     /\ \A f \in Stored' : ~HasSingleArrow(f)]_vars

\* C26: a line whose fragment holds a double arrow is refused whatever its
\* role; a line whose fragment holds a left or right arrow is refused in
\* the roles Result, Export and Create; the Request State never holds a
\* fragment with a double arrow, nor a Result, Export or Create with an
\* arrow.
C26_ArrowsRefusedByRole ==
  [][/\ \A line \in ForbiddenArrowLines : InputLine(line) => state' = state
     /\ \A f \in Stored' : ~HasDoubleArrow(f)
     /\ \A f \in StoredExpressions' : ~HasSingleArrow(f)]_vars

\* An Append with a left arrow was accepted and dispatched; no Result,
\* Export or Create with an arrow is held.
C26_Witness ==
  /\ HasStep("rpc")
  /\ \E f \in Stored : HasSingleArrow(f)
  /\ \A f \in StoredExpressions : ~HasSingleArrow(f)

\* A Create spec without ":=", or with nothing but blanks on one side of it.
Malformed(spec) ==
  \/ ~ContainsSeq(spec, <<":", "=">>)
  \/ CreateName(spec) = << >>
  \/ CreateExpr(spec) = << >>

\* The Create lines whose spec is malformed.
MalformedCreateLines ==
  {line \in PolicyLines :
     Role(line) = <<"create">> /\ Malformed(LinePayload(line))}

\* C27: a Create line whose spec lacks ":=" or has an empty name or
\* expression side after trimming is refused and leaves the Request State
\* as it was; the Request State never holds such a spec.
C27_MalformedCreateRefused ==
  [][/\ \A line \in MalformedCreateLines : InputLine(line) => state' = state
     /\ \A i \in 1..Len(state.create_global_specs') :
          ~Malformed(state.create_global_specs'[i])]_vars

\* A Create spec whose sides needed trimming was accepted and dispatched.
C27_Witness ==
  /\ HasStep("rpc")
  /\ \E i \in 1..Len(state.create_global_specs) :
       LET spec == state.create_global_specs[i] IN
         /\ ~Malformed(spec)
         /\ SubSeq(spec, 1, FindSeq(spec, <<":", "=">>) - 1) # CreateName(spec)

-----------------------------------------------------------------------------
\* Properties of the error artifact

\* The poller of this dispatch read an artifact written for a trapped error.
ReadErrorArtifact == \E i \in 1..Len(emitted) : emitted[i].kind = "error"

\* C28: a dispatch whose poller read the artifact of a trapped error
\* ("__ERROR__:" followed by the message) does not end as a success.
C28_ErrorArtifactIsNotSuccess == ReadErrorArtifact => ~success

-----------------------------------------------------------------------------
\* Properties of the Create names

\* The request holds two Create specs with the same trimmed name.
DuplicateCreate ==
  \E i, j \in 1..Len(state.create_global_specs) :
    /\ i < j
    /\ CreateName(state.create_global_specs[i])
         = CreateName(state.create_global_specs[j])

\* The names the synthesized fragment creates, in order.
FragmentCreateNames ==
  SelectSeq(r_code, LAMBDA ins : ins.op = "create_check")

\* C29: a request holding two Create specs with equal trimmed names is never
\* dispatched: no transport call is made for it, and once build_r_code has
\* run the send has failed with a validation error; every Create name in
\* the synthesized fragment matches [A-Za-z.][A-Za-z0-9._]* and occurs once.
C29_CreateNamesUniqueAndValid ==
  /\ DuplicateCreate =>
       /\ ~HasStep("rpc")
       /\ transport = NoTransport
       /\ r_code = << >>
       /\ HasStep("build") => exc = "ValidationError" /\ ~success
  /\ \A k \in 1..Len(r_code) :
       r_code[k].op \in {"create_check", "create_eval", "create_assign"} =>
         validate_identifier(r_code[k].name)
  /\ \A i, j \in 1..Len(FragmentCreateNames) :
       i < j => FragmentCreateNames[i].name # FragmentCreateNames[j].name

\* The send of a request with a duplicated Create name has been stopped by
\* build_r_code.
C29_Witness ==
  /\ DuplicateCreate
  /\ HasStep("build")
  /\ exc = "ValidationError"
  /\ pc = "finally"

-----------------------------------------------------------------------------
\* Properties of a send rejected by validation

\* The first send of the tool has returned with a validation error raised
\* by validate_state_for_send or by build_r_code.
FirstSendRejected ==
  /\ pc = "repl_finally"
  /\ exc = "ValidationError"
  /\ nsend = 1
  /\ ~HasStep("parse")

\* The send got as far as the session search and the environment loader,
\* which probe the process table with ps when a process id is hinted.
StartedExternal == HasStep("resolve") \/ HasStep("loadenv")

\* C30: a send rejected by validation has started no external process and
\* leaves the tool's environment variables as they were before the send.
C30_RejectionHasNoEffect ==
  FirstSendRejected => ~StartedExternal /\ osenv = osenv0

-----------------------------------------------------------------------------
\* Properties of a transport timeout

\* The dispatch has failed on a transport call that timed out.
EndedInTransportTimeout ==
  /\ exc = "SendError"
  /\ transport.class = "TimedOut"
  /\ pc \in {"finally", "repl_finally"}

\* C31: whenever a dispatch ends with a transport timeout, the session
\* metadata has been printed before the failure is reported.
C31_TimeoutSurfacesMetadata ==
  EndedInTransportTimeout =>
    surfaces_metadata(transport.killed, transport.rpc_rc)

-----------------------------------------------------------------------------
\* Properties of the environment loader

\* The caller has a stream id, a port token and a session process id that
\* passes the liveness probe.
HasLiveValues ==
  /\ osenv.stream # ""
  /\ osenv.token # ""
  /\ session_pid_is_alive(osenv.pid, procs)

\* C32: the tool's environment changes only in the environment loader, and
\* only when the caller lacks a stream id, a port token or a live session
\* process id; with all three the loader leaves it as it was.
C32_EnvWrittenOnlyWhenLacking ==
  [][osenv' # osenv => (pc = "probe_loadenv" /\ ~HasLiveValues)]_vars

\* The loader has run in the first dispatch of a caller that had live
\* values, next to a snapshot recording other values, and changed nothing.
C32_Witness ==
  /\ pc = "probe_sent"
  /\ nsend = 1
  /\ HasLiveValues
  /\ osenv = osenv0
  /\ sessions[session_dir].env
  /\ session_pid_is_alive(sessions[session_dir].pid, procs)
  /\ sessions[session_dir].pid # osenv.pid

-----------------------------------------------------------------------------
\* Properties of the Creates of one request

\* A Create of the request was refused because its name was already bound.
CreateWasRefused ==
  \E e \in hist : e.ev = "check" /\ CreateRefuses(e.was)

\* The names the Creates of the request have bound in the global namespace.
BoundByCreate ==
  {n \in GNames : g_env[n] = "created" /\ \E e \in hist : e.ev = "bind" /\ e.name = n}

\* C37: when the fragment has ended and one of its Creates was refused
\* because its name already existed, no name declared by a Create of the
\* request has been newly bound in the global namespace by the request.
C37_CreatesAllOrNothing ==
  (Ended /\ CreateWasRefused) => BoundByCreate = {}

-----------------------------------------------------------------------------
\* Properties of the busy flag

\* The flag file is missing under both spellings, or the first existing one
\* cannot be read.
FlagMissingOrUnreadable(typo, fixed) ==
  \/ typo = NoFlag /\ fixed = NoFlag
  \/ typo = Unreadable
  \/ typo = NoFlag /\ fixed = Unreadable

\* The first existing path of the pair (typo, fixed) holds a file whose
\* contents without whitespace are "1".
FirstExistingSaysBusy(typo, fixed) ==
  \/ typo \in FlagContents /\ RemoveWs(typo) = <<"1">>
  \/ typo = NoFlag /\ fixed \in FlagContents /\ RemoveWs(fixed) = <<"1">>

\* The precheck has just reported the session busy: the dispatch ends with
\* a send error and goes no further.
ReportsBusy ==
  /\ exc' = "SendError"
  /\ pc' = "finally"
  /\ steps'[Len(steps')] = [name |-> "busy", ok |-> FALSE]

\* C34: the precheck reports the session busy iff the first existing path
\* of the pair (misspelled directory first) holds contents that equal 1 once
\* all whitespace is removed; when the file is missing under both spellings
\* or cannot be read the session is not reported busy and the dispatch goes
\* on to the transport call.
C34_BusyIffFirstExistingIsOne ==
  [][\A typo \in FlagFiles, fixed \in FlagFiles :
       BusyPrecheckOf(typo, fixed) =>
         /\ ReportsBusy <=> FirstExistingSaysBusy(typo, fixed)
         /\ FlagMissingOrUnreadable(typo, fixed) =>
              (~ReportsBusy /\ pc' = "rpc" /\ exc' = exc)]_vars

\* The precheck has read a flag saying busy and the dispatch has ended
\* there, before the transport call.
C34_Witness ==
  /\ HasStep("busy")
  /\ busy_read = <<"1">>
  /\ exc = "SendError"
  /\ ~HasStep("rpc")

-----------------------------------------------------------------------------
\* Properties of a rejected input line

\* The lines the prompt loop must reject: a policy violation, a malformed
\* Create, a request id or timeout that is not an integer, an invalid boolean
\* or benchmark unit, an unknown prefix, a line without a prefix.
RejectedLines ==
  { <<"append", ":", " ">>,
    <<"result", ":", "x", "<", "-", "1">>,
    <<"modify", ":", "y", "<", "<", "-", "1">>,
    <<"create", ":", "a">>,
    <<"id", ":", "x">>,
    <<"id", ":", "-", "1">>,
    <<"id", ":">>,
    <<"timeout", ":", "x">>,
    <<"timeout", ":", " ">>,
    <<"rpc", "-", "timeout", ":", "x">>,
    <<"rpc", "-", "timeout", ":", "1", " ", "2">>,
    <<"benchmark", ":", "maybe">>,
    <<"benchmark", "-", "unit", ":", "x">>,
    <<"capture", "-", "output", ":", "maybe">>,
    <<"capture", "-", "output", ":", " ">>,
    <<"bogus", ":", "x">>,
    <<"x">> }

\* A non-empty string of digits.
IsDigitString(s) == s # << >> /\ \A k \in 1..Len(s) : s[k] \in Digits

\* Every fragment the Request State holds passes the validator of its role,
\* and the request id and both timeouts are strings of digits.
StoredValidated(st) ==
  /\ \A i \in 1..Len(st.append_code_snippets) :
       validate_append_snippet(st.append_code_snippets[i])
  /\ \A i \in 1..Len(st.create_global_specs) :
       validate_name_expr_spec(st.create_global_specs[i])
  /\ \A i \in 1..Len(st.modify_global_snippets) :
       validate_modify_global_snippet(st.modify_global_snippets[i])
  /\ st.result_expr # << >> => validate_result_expr(st.result_expr)
  /\ st.state_export_expr # << >> =>
       validate_state_export_expr(st.state_export_expr)
  /\ IsDigitString(st.request_id)
  /\ IsDigitString(st.timeout_seconds)
  /\ IsDigitString(st.rpc_timeout_seconds)

\* C35: a rejected input line leaves the whole Request State as it was, and
\* after every input line each stored fragment passes its role's validator
\* and the request id and both timeouts are strings of digits.
C35_RejectedLineChangesNothing ==
  [][/\ state' # state => \A line \in RejectedLines : ~InputLine(line)
     /\ StoredValidated(state')]_vars

\* Two option lines were accepted: the request id and the transport timeout
\* hold the trimmed payloads.
C35_Witness ==
  /\ pc = "prompt"
  /\ nlines = 2
  /\ state.request_id = <<"5">>
  /\ state.rpc_timeout_seconds = <<"5">>
  /\ StoredValidated(state)

-----------------------------------------------------------------------------
\* Properties of the emitted contents

\* C36: the contents the poller emits in a dispatch were written by the
\* fragment of that dispatch, also when the output path is kept across
\* sends and the fragment of an earlier request writes late.
C36_EmittedByOwnFragment ==
  \A i \in 1..Len(emitted) : emitted[i].req = nsend

=============================================================================
